---- MODULE Spec2Model ----
(***************************************************************************)
(* Model of the quote-aggregation and round-trip execution engine of the   *)
(* aggrefi bots: src/classes/asset.py, src/helpers.py,                      *)
(* src/bots/arbitragetwoway.py and src/bots/arbitragethreeway.py.           *)
(*                                                                         *)
(* Representation of numbers.  A scaled amount is an integer, as in the    *)
(* code.  A decimal.Decimal value is an integer v = 3*t + e: t counts      *)
(* units of 10^-Prec and e in {-1, 0, 1} records that the value lies just  *)
(* below, exactly on, or just above t * 10^-Prec.  The code builds its     *)
(* Decimals from binary floats (Decimal(amount_scaled / 10**d)), whose     *)
(* rounding error is far smaller than 10^-Prec but decides comparisons and *)
(* truncations; e keeps its sign.  Decimals built from configuration       *)
(* strings are exact (e = 0).                                              *)
(*                                                                         *)
(* Python's None is the empty sequence and a present value x is <<x>>.     *)
(***************************************************************************)
EXTENDS Integers, Sequences, FiniteSets, TLC

(***************************************************************************)
(* Bounds of the model.                                                    *)
(***************************************************************************)
\* iterations of submit_swap's while loop that are explored per call
MaxAttempts == 2
\* adapters answer a quote with MinQuoteLevel..MaxQuoteLevel tenths of the asset
MaxQuoteLevel == 5
\* the scaling methods are called on the amounts of 0..MaxScaledAmount base units
MaxScaledAmount == 30
\* the order book holds MaxOrders orders of the user when the spot-trades bot starts
MaxOrders == 2

(***************************************************************************)
(* Configuration read from env-<network>.json.                             *)
(***************************************************************************)
\* arbitrage:*:amounts:starting_amt = "0.4"
TradeAmtTenths == 4
\* arbitrage:*:amounts:min_profit = "0.1"
MinProfitTenths == 1
\* arbitrage:*:amounts:slippage = 0.5, in percent
SlippagePct == 50

\* the lowest answer of an adapter is the starting amount itself
MinQuoteLevel == TradeAmtTenths

None == << >>
Some(x) == << x >>
IsNone(o) == o = << >>
Val(o) == o[1]

RECURSIVE Pow10(_)
Pow10(n) == IF n = 0 THEN 1 ELSE 10 * Pow10(n - 1)

\* fractional digits kept in a Decimal: one more than the largest decimals in use
Prec == 1 + 2

\* Decimal("<units>e-<d>"): an exact decimal literal
DecimalOf(units, d) == 3 * units * Pow10(Prec - d)

\* the t and e of a Decimal v = 3*t + e
DecTicks(v) == (v + 1) \div 3
DecErr(v) == v - 3 * DecTicks(v)

(***************************************************************************)
(* Supported assets.                                                       *)
(***************************************************************************)
\* AlgoAsset has no attribute num_decimal_places: the dataclass declares decimals
NoAttr == 0 - 1

DEXS == {"algofi", "pactfi", "tinyman"}

\* the catalog rows of the configured assets (asset_onchain_id, decimals, asset_code)
Catalog ==
    << [asset_onchain_id |-> 0, decimals |-> 1, asset_code |-> "ALGO"],
       [asset_onchain_id |-> 31566704, decimals |-> 2, asset_code |-> "USDC"],
       [asset_onchain_id |-> 312769, decimals |-> 1, asset_code |-> "USDT"] >>

\* the same rows with ALGO configured under the id 1 that Algofi uses for it
CatalogAlgoAsOne ==
    [Catalog EXCEPT ![1] = [asset_onchain_id |-> 1, decimals |-> 1,
                            asset_code |-> "ALGO"]]

\* an asset id handed on as it is configured
AssetIdUnchanged(asset_id) == asset_id

\* the id Algofi is given: ALGO has the id 1 there
AlgofiAssetId(asset_id) ==
    IF asset_id = 0 THEN 1 ELSE asset_id

\* the id Tinyman is given: ALGO has the id 0 there
TinymanAssetId(asset_id) ==
    IF asset_id = 1 THEN 0 ELSE asset_id

\* the id Pact is given: ALGO has the id 0 there
PactAssetId(asset_id) ==
    IF asset_id = 1 THEN 0 ELSE asset_id

\* the id get_liquidity_pools hands to dex: asset1_id and asset2_id are reassigned
\* in the order algofi, tinyman, pactfi, each block starting from the ids the block
\* before left
LookupAssetId(amm_clients, dex, asset_id) ==
    LET for_algofi == IF "algofi" \in amm_clients THEN AlgofiAssetId(asset_id)
                      ELSE asset_id
        for_tinyman == IF "tinyman" \in amm_clients THEN TinymanAssetId(for_algofi)
                       ELSE for_algofi
        for_pactfi == IF "pactfi" \in amm_clients THEN PactAssetId(for_tinyman)
                      ELSE for_tinyman
    IN  IF dex = "algofi" THEN for_algofi
        ELSE IF dex = "tinyman" THEN for_tinyman ELSE for_pactfi

\* the from_asset_id get_swap_quotes hands to dex's quote call
QuoteAssetId(dex, asset_onchain_id) ==
    IF dex = "algofi" THEN AlgofiAssetId(asset_onchain_id)
    ELSE IF dex = "tinyman" THEN TinymanAssetId(asset_onchain_id)
    ELSE PactAssetId(asset_onchain_id)

\* the <<from, to>> ids of the swap a branch of submit_swap sends: Algofi's are
\* computed there, Pact's are those of the prepared swap and Tinyman's those of
\* the quote's transactions
SubmitAssetIds(branch, from_asset_id, to_asset_id) ==
    IF branch = "algofi"
    THEN <<AlgofiAssetId(from_asset_id), AlgofiAssetId(to_asset_id)>>
    ELSE IF branch = "pact"
    THEN <<PactAssetId(from_asset_id), PactAssetId(to_asset_id)>>
    ELSE <<TinymanAssetId(from_asset_id), TinymanAssetId(to_asset_id)>>

\* AlgoAsset(...) as get_supported_algo_assets constructs it: the declared fields only
AlgoAsset(row) ==
    [asset_onchain_id |-> row.asset_onchain_id, decimals |-> row.decimals,
     asset_code |-> row.asset_code, num_decimal_places |-> NoAttr]

\* an AlgoAsset on which the attribute the scaling methods read has been set
AlgoAssetWithAttr(row) ==
    [AlgoAsset(row) EXCEPT !.num_decimal_places = row.decimals]

\* the double amount_scaled / 10**d lies below the real quotient for these amount_scaled
FloatBelow(n, d) ==
    \/ d = 1 /\ n \in {3, 6, 7, 12, 14, 17, 19, 23, 24, 28, 29, 33, 34, 38, 39, 41,
                       43, 46, 48, 51, 53, 56, 58, 61, 63, 66, 68, 71, 73, 76, 78}
    \/ d = 2 /\ n \in {3, 6, 9, 12, 15, 18, 21, 24, 29, 30, 31, 35, 36, 37, 41, 42,
                       43, 47, 48, 49, 57, 58, 59, 60, 61, 62, 69, 70, 71, 72, 73,
                       74, 82, 83, 84, 85, 86, 87, 94, 95, 96, 97, 98, 99}

\* both doubles (n - 1) / 10**d and n / 10**d lie below their real quotients, and
\* the first by more than the second
FloatGapWidens(n, d) ==
    \/ d = 1 /\ n \in {24, 29, 34, 39}
    \/ d = 2 /\ n \in {30, 31, 36, 37, 42, 43, 48, 49, 58, 59, 60, 61, 62, 70, 71,
                       72, 73, 74, 83, 84, 85, 86, 87, 95, 96, 97, 98, 99}

\* the double amount_scaled / 10**d is exactly the real quotient
FloatExact(n, d) ==
    \/ d = 0
    \/ d = 1 /\ n % 5 = 0
    \/ d = 2 /\ n % 25 = 0

\* AlgoAsset.get_scaled_amount / get_unscaled_from_scaled_amount raise AttributeError
ScalingRaises(asset) == asset.num_decimal_places = NoAttr

\* int(amount * Decimal(10**self.num_decimal_places))
get_scaled_amount(asset, amount) ==
    amount \div (3 * Pow10(Prec - asset.num_decimal_places))

\* Decimal(amount_scaled / (10**self.num_decimal_places))
get_unscaled_from_scaled_amount(asset, amount_scaled) ==
    LET d == asset.num_decimal_places
        exact == DecimalOf(amount_scaled, d)
    IN  IF FloatExact(amount_scaled, d) THEN exact
        ELSE IF FloatBelow(amount_scaled, d) THEN exact - 1
        ELSE exact + 1

\* |x - y| < 10**-d for an amount x and y = unscale(scale(x)): the ticks differ by
\* less than one base unit, or by exactly one with y not further below its tick
\* than x is below its own
DiffersByLessThanUnit(asset, x, y) ==
    LET d == asset.num_decimal_places
        unit == Pow10(Prec - d)
        gap == DecTicks(x) - DecTicks(y)
    IN  \/ gap < unit /\ gap > 0 - unit
        \/ /\ gap = unit
           /\ ~(/\ DecErr(x) = 0 - 1 /\ DecErr(y) = 0 - 1
                /\ FloatGapWidens(DecTicks(x) \div unit, d))

\* amount * Decimal(1.0 - slippage); 1.0 - 0.5 and 1.0 - 1.0 are exact in binary,
\* and the product with Decimal(0.0) is exactly zero
TimesOneMinusSlippage(amount, slippage) ==
    IF slippage = 100 THEN 0
    ELSE 3 * ((DecTicks(amount) * (100 - slippage)) \div 100) + DecErr(amount)

(***************************************************************************)
(* Quoting: helpers.get_swap_quotes and get_highest_swap_amount_out.       *)
(***************************************************************************)
\* what the three DEXs answer to one quote request: the scaled amount out of each
AdapterResponses(to_asset) ==
    [DEXS -> {l * Pow10(to_asset.decimals - 1) : l \in MinQuoteLevel..MaxQuoteLevel}]

\* Tinyman's quote.amount_out_with_slippage.amount: amount_out - int(amount_out * slippage)
TinymanMinOut(out_scaled, slippage) == out_scaled - ((out_scaled * slippage) \div 100)

\* Pact's swap.effect.minimum_amount_received for slippage_pct = slippage * 100
PactMinOut(out_scaled, slippage) == out_scaled - ((out_scaled * slippage) \div 100)

\* get_swap_quotes raises: AttributeError in get_scaled_amount, or KeyError in
\* pools["pactfi"].update_state() when the pool mapping holds no Pact pool
get_swap_quotes_raises(pools, from_asset) ==
    \/ ScalingRaises(from_asset)
    \/ "pactfi" \notin pools

\* an entry for Algofi computed with amount_out * (1 + slippage)
AlgofiQuoteOnePlusSlippage(to_asset, asset_in_amt, slippage, out_scaled) ==
    LET amount_out == get_unscaled_from_scaled_amount(to_asset, out_scaled)
    IN  [source |-> "algofi", amount_in |-> asset_in_amt, amount_out |-> amount_out,
         amount_out_with_slippage |->
             3 * ((DecTicks(amount_out) * (100 + slippage)) \div 100)
                 + DecErr(amount_out),
         slippage |-> slippage]

\* the entry get_swap_quotes stores under quotes["algofi"]
AlgofiQuote(to_asset, asset_in_amt, slippage, out_scaled) ==
    LET amount_out == get_unscaled_from_scaled_amount(to_asset, out_scaled)
    IN  [source |-> "algofi", amount_in |-> asset_in_amt, amount_out |-> amount_out,
         amount_out_with_slippage |-> TimesOneMinusSlippage(amount_out, slippage),
         slippage |-> slippage]

\* the Tinyman SDK quote object stored under quotes["tinyman"]: its amounts are scaled
TinymanQuote(asset_in_amt_scaled, slippage, out_scaled) ==
    [source |-> "tinyman", amount_in |-> asset_in_amt_scaled, amount_out |-> out_scaled,
     amount_out_with_slippage |-> TinymanMinOut(out_scaled, slippage),
     slippage |-> slippage]

\* an entry for Pact whose minimum received is reduced by the slippage once more
PactQuoteAdjustedTwice(to_asset, asset_in_amt, slippage, out_scaled) ==
    [source |-> "pactfi", amount_in |-> asset_in_amt,
     amount_out |-> get_unscaled_from_scaled_amount(to_asset, out_scaled),
     amount_out_with_slippage |->
         TimesOneMinusSlippage(
             get_unscaled_from_scaled_amount(to_asset,
                                             PactMinOut(out_scaled, slippage)),
             slippage),
     slippage |-> slippage]

\* the entry get_swap_quotes stores under quotes["pactfi"]; the prepared swap it
\* carries was prepared for asset_in_amt_scaled and slippage
PactQuote(to_asset, asset_in_amt, slippage, out_scaled) ==
    [source |-> "pactfi", amount_in |-> asset_in_amt,
     amount_out |-> get_unscaled_from_scaled_amount(to_asset, out_scaled),
     amount_out_with_slippage |->
         get_unscaled_from_scaled_amount(to_asset, PactMinOut(out_scaled, slippage)),
     slippage |-> slippage]

\* get_swap_quotes when it does not raise: one entry per DEX with a pool in pools
get_swap_quotes(pools, from_asset, to_asset, asset_in_amt, slippage, resp) ==
    LET asset_in_amt_scaled == get_scaled_amount(from_asset, asset_in_amt)
    IN  [dex \in pools \cap DEXS |->
            IF dex = "algofi"
            THEN AlgofiQuote(to_asset, asset_in_amt, slippage, resp[dex])
            ELSE IF dex = "tinyman"
            THEN TinymanQuote(asset_in_amt_scaled, slippage, resp[dex])
            ELSE PactQuote(to_asset, asset_in_amt, slippage, resp[dex])]

\* a branch that names Algofi as the winner whatever entry it took the fields from
WinnerNamedAlgofi(higher_amt, higher_amt_with_slippage, winning_dex, quote) ==
    [amount_out |-> higher_amt, amount_out_with_slippage |-> higher_amt_with_slippage,
     dex |-> "Algofi", quote |-> quote]

\* the winner's fields, as each branch of get_highest_swap_amount_out assigns them
Winner(higher_amt, higher_amt_with_slippage, winning_dex, quote) ==
    [amount_out |-> higher_amt, amount_out_with_slippage |-> higher_amt_with_slippage,
     dex |-> winning_dex, quote |-> quote]

\* the key of quotes that belongs to a winning_dex
DexKey(winning_dex) ==
    IF winning_dex = "Algofi" THEN "algofi"
    ELSE IF winning_dex = "Pact" THEN "pactfi" ELSE "tinyman"

\* the amount out the selection compares for the entry of dex: the entry's amount_out,
\* for Tinyman's quote object converted from its scaled amount
RawAmountOut(quotes, dex, to_asset) ==
    IF dex = "tinyman"
    THEN get_unscaled_from_scaled_amount(to_asset, quotes[dex].amount_out)
    ELSE quotes[dex].amount_out

\* the fields the selection assigns when the entry of dex wins
WinnerOf(quotes, dex, to_asset) ==
    IF dex = "tinyman"
    THEN Winner(get_unscaled_from_scaled_amount(to_asset, quotes[dex].amount_out),
                get_unscaled_from_scaled_amount(to_asset,
                    quotes[dex].amount_out_with_slippage),
                "Tinyman", quotes[dex])
    ELSE Winner(quotes[dex].amount_out, quotes[dex].amount_out_with_slippage,
                IF dex = "algofi" THEN "Algofi" ELSE "Pact", quotes[dex])

\* a selection that takes the first DEX present, whatever the amounts
HighestOfFirstPresent(quotes, to_asset) ==
    IF "algofi" \in DOMAIN quotes THEN WinnerOf(quotes, "algofi", to_asset)
    ELSE IF "pactfi" \in DOMAIN quotes THEN WinnerOf(quotes, "pactfi", to_asset)
    ELSE WinnerOf(quotes, "tinyman", to_asset)

\* a selection with strict comparisons: among equal amounts the last DEX wins
HighestOfLastMaximal(quotes, to_asset) ==
    LET maximal == {d \in DOMAIN quotes : \A e \in DOMAIN quotes :
                       RawAmountOut(quotes, d, to_asset) >=
                           RawAmountOut(quotes, e, to_asset)}
    IN  IF "tinyman" \in maximal THEN WinnerOf(quotes, "tinyman", to_asset)
        ELSE IF "pactfi" \in maximal THEN WinnerOf(quotes, "pactfi", to_asset)
        ELSE WinnerOf(quotes, "algofi", to_asset)

\* the selection among the entries of quotes; no branch assigns when quotes is empty
\* and the return statement then raises UnboundLocalError
HighestOf(quotes, to_asset) ==
    LET has(d) == d \in DOMAIN quotes
        tinyman_amount_out ==
            get_unscaled_from_scaled_amount(to_asset, quotes["tinyman"].amount_out)
        tinyman_amount_out_with_slippage ==
            get_unscaled_from_scaled_amount(to_asset,
                                            quotes["tinyman"].amount_out_with_slippage)
        algofi == Winner(quotes["algofi"].amount_out,
                         quotes["algofi"].amount_out_with_slippage, "Algofi",
                         quotes["algofi"])
        pact == Winner(quotes["pactfi"].amount_out,
                       quotes["pactfi"].amount_out_with_slippage, "Pact",
                       quotes["pactfi"])
        tinyman == Winner(tinyman_amount_out, tinyman_amount_out_with_slippage,
                          "Tinyman", quotes["tinyman"])
    IN  IF has("tinyman") /\ has("algofi") /\ has("pactfi")
        THEN IF /\ quotes["algofi"].amount_out >= tinyman_amount_out
                /\ quotes["algofi"].amount_out >= quotes["pactfi"].amount_out
             THEN algofi
             ELSE IF /\ quotes["pactfi"].amount_out >= tinyman_amount_out
                     /\ quotes["pactfi"].amount_out >= quotes["algofi"].amount_out
             THEN pact
             ELSE tinyman
        ELSE IF has("tinyman") /\ has("algofi") /\ ~has("pactfi")
        THEN IF quotes["algofi"].amount_out >= tinyman_amount_out
             THEN algofi ELSE tinyman
        ELSE IF has("tinyman") /\ has("pactfi") /\ ~has("algofi")
        THEN IF quotes["pactfi"].amount_out >= tinyman_amount_out
             THEN pact ELSE tinyman
        ELSE IF has("algofi") /\ has("pactfi") /\ ~has("tinyman")
        THEN IF quotes["algofi"].amount_out >= quotes["pactfi"].amount_out
             THEN algofi ELSE pact
        ELSE IF has("tinyman") /\ ~has("algofi") /\ ~has("pactfi")
        THEN tinyman
        ELSE IF has("algofi") /\ ~has("tinyman") /\ ~has("pactfi")
        THEN algofi
        ELSE pact

\* get_highest_swap_amount_out raises: get_swap_quotes raised, or quotes is empty
get_highest_swap_amount_out_raises(pools, from_asset) ==
    \/ get_swap_quotes_raises(pools, from_asset)
    \/ pools \cap DEXS = {}

\* the SwapAmount get_highest_swap_amount_out returns; from/to are indexes into assets
get_highest_swap_amount_out(pools, assets_, from, to, asset_in_amt, slippage, resp) ==
    LET quotes == get_swap_quotes(pools, assets_[from], assets_[to], asset_in_amt,
                                  slippage, resp)
        w == HighestOf(quotes, assets_[to])
    IN  [to_asset |-> to, from_asset |-> from, quote |-> w.quote,
         amount_in |-> asset_in_amt, amount_out |-> w.amount_out,
         amount_out_with_slippage |-> w.amount_out_with_slippage,
         dex |-> w.dex, slippage |-> slippage]

(***************************************************************************)
(* Pool resolution: helpers.get_liquidity_pools.                           *)
(***************************************************************************)
\* what a DEX answers to a pool lookup: a pool, no (initialized) pool, or an error
PoolAnswers == [DEXS -> {"ok", "missing", "error"}]

\* the answers explored by the bots' lookups: at most one DEX is without a pool
OneFailurePoolAnswers ==
    {answer \in PoolAnswers : Cardinality({dex \in DEXS : answer[dex] # "ok"}) <= 1}

\* get_liquidity_pools raises: with raise_error_on_missing_lp a DEX without a pool
\* raises its LPNotFoundError; without it, a failed Tinyman fetch leaves tinyman_pool
\* unbound and the test of tinyman_pool.exists raises UnboundLocalError
get_liquidity_pools_raises(amm_clients, answer, raise_error_on_missing_lp) ==
    \/ /\ raise_error_on_missing_lp
       /\ \E dex \in amm_clients : answer[dex] # "ok"
    \/ /\ ~raise_error_on_missing_lp
       /\ "tinyman" \in amm_clients
       /\ answer["tinyman"] = "error"

\* the pool mapping get_liquidity_pools returns when it does not raise
get_liquidity_pools(amm_clients, answer) ==
    {dex \in amm_clients : answer[dex] = "ok"}

(***************************************************************************)
(* The bots: configuration and plan.                                       *)
(***************************************************************************)
BOTS == {"twoway", "threeway"}

\* trade_amt = Decimal(env("arbitrage:...:amounts:starting_amt"))
TradeAmt == DecimalOf(TradeAmtTenths, 1)
\* min_profit = Decimal(env("arbitrage:...:amounts:min_profit"))
MinProfit == DecimalOf(MinProfitTenths, 1)

\* len(assets) of get_configured_assets
NumAssets(b) == IF b = "twoway" THEN 2 ELSE 3
\* the number of swaps of one round trip
NumLegs(b) == IF b = "twoway" THEN 2 ELSE 3

\* a do_round_trip that passes (0, 1, 2) to both calls of the helper
OrderFirstOnly(b, d) == <<1, 2, IF b = "twoway" THEN 1 ELSE 3>>

\* (a1, a2, a3) of do_round_trip_helper as 1-based indexes: (0, 1, 2), then (0, 2, 1)
Order(b, d) ==
    IF b = "twoway" THEN <<1, 2, 1>> ELSE IF d = 1 THEN <<1, 2, 3>> ELSE <<1, 3, 2>>

\* the asset swapped in and the asset swapped out by leg k
LegFrom(b, d, k) == Order(b, d)[k]
LegTo(b, d, k) == Order(b, d)[(k % NumLegs(b)) + 1]

\* the asset pairs whose pools a round trip resolves, in the order of the lookups:
\* lps for the two-way bot; swap1_pools, swap2_pools, swap3_pools for the three-way bot
PoolPairs(b, d) ==
    IF b = "twoway" THEN << <<1, 2>> >>
    ELSE << <<Order(b, d)[1], Order(b, d)[2]>>, <<Order(b, d)[2], Order(b, d)[3]>>,
            <<Order(b, d)[1], Order(b, d)[3]>> >>

\* a round trip that quotes and executes every leg on the pools resolved first
LegPoolsFirstPair(b, k) == 1

\* the index in the resolved pool mappings of the pools leg k is quoted and executed on
LegPools(b, k) == IF b = "twoway" THEN 1 ELSE k

\* a round trip that enables requote for every leg
RetryFlagAlways(k) == k >= 1

\* the retry_with_new_quote argument the round trip passes to submit_swap for leg k
RetryFlag(k) == k >= 2

\* an arbitrage condition that excludes the boundary
ProfitableStrict(final_amount_out, trade_amt, min_profit) ==
    final_amount_out > trade_amt + min_profit

\* swap_amount_N.amount_out >= (trade_amt + min_profit)
Profitable(final_amount_out, trade_amt, min_profit) ==
    final_amount_out >= trade_amt + min_profit

\* an evaluation that chains the slippage-adjusted amounts
NextEvalAmountWithSlippage(swap_amount_k) == swap_amount_k.amount_out_with_slippage

\* the amount leg k + 1 is quoted for during evaluation, k >= 1
NextEvalAmount(swap_amount_k) == swap_amount_k.amount_out

\* an execution that re-quotes the next leg for the amount leg k was quoted to yield
NextSwapAmountProjected(swap_carried_out_k) == swap_carried_out_k.quote.amount_out

\* the amount leg k + 1 is re-quoted for during execution, from leg k's outcome
NextSwapAmount(swap_carried_out_k) == swap_carried_out_k.amount_out

(***************************************************************************)
(* Execution of one leg: submit_swap.                                      *)
(***************************************************************************)
\* dex = swap_to_carry_out.dex.lower()
Lower(dex) ==
    IF dex = "Algofi" THEN "algofi" ELSE IF dex = "Pact" THEN "pact" ELSE "tinyman"

\* the branch of submit_swap's if / elif / else that dex selects: the two-way bot
\* tests "algofi" and "pact", the three-way bot tests "algofi" only
SubmitBranch(b, dex) ==
    IF dex = "algofi" THEN "algofi"
    ELSE IF b = "twoway" /\ dex = "pact" THEN "pact"
    ELSE "tinyman"

\* the else branch reads swap_to_carry_out.quote.amount_out_with_slippage.amount: an
\* AttributeError, before anything is sent, unless the quote is Tinyman's quote object
RaisesBeforeSending(b, swap) ==
    /\ SubmitBranch(b, Lower(swap.dex)) = "tinyman"
    /\ swap.quote.source # "tinyman"

\* what the ledger read-back of a settled swap returns: None or the scaled amount
ReadBacks(to_asset) ==
    {None} \cup
    {Some(l * Pow10(to_asset.decimals - 1)) : l \in MinQuoteLevel..MaxQuoteLevel}

\* the excess Tinyman holds for the asset received: 0 when the asset is not in excess
Excesses(to_asset) == {0, Pow10(to_asset.decimals - 1)}

\* a successful attempt converts a scaled amount with the AlgoAsset's method
OutcomeNeedsScaling(b, swap, amt) ==
    \/ SubmitBranch(b, Lower(swap.dex)) = "tinyman"
    \/ ~IsNone(amt)

\* a successful attempt that reports the quoted minimum, whatever was read back
SwapOutcomeIgnoringReadBack(b, assets_, swap, amt, excess) ==
    LET to_asset == assets_[swap.to_asset]
        quoted_min ==
            IF SubmitBranch(b, Lower(swap.dex)) = "tinyman"
            THEN get_unscaled_from_scaled_amount(to_asset,
                                                 swap.quote.amount_out_with_slippage)
            ELSE swap.quote.amount_out_with_slippage
    IN  [to_asset |-> swap.to_asset, from_asset |-> swap.from_asset,
         quote |-> swap.quote, amount_in |-> swap.amount_in,
         amount_out |-> quoted_min, amount_out_with_slippage |-> quoted_min,
         dex |-> Lower(swap.dex), slippage |-> swap.slippage]

\* the SwapAmount a successful attempt assigns to swap_carried_out
SwapOutcome(b, assets_, swap, amt, excess) ==
    LET dex == Lower(swap.dex)
        to_asset == assets_[swap.to_asset]
        carried(amount_out, amount_out_with_slippage) ==
            [to_asset |-> swap.to_asset, from_asset |-> swap.from_asset,
             quote |-> swap.quote, amount_in |-> swap.amount_in,
             amount_out |-> amount_out,
             amount_out_with_slippage |-> amount_out_with_slippage,
             dex |-> dex, slippage |-> swap.slippage]
    IN  IF SubmitBranch(b, dex) = "tinyman"
        THEN carried(get_unscaled_from_scaled_amount(to_asset,
                         swap.quote.amount_out_with_slippage + excess),
                     get_unscaled_from_scaled_amount(to_asset,
                         swap.quote.amount_out_with_slippage))
        ELSE carried(IF IsNone(amt) THEN swap.quote.amount_out_with_slippage
                     ELSE get_unscaled_from_scaled_amount(to_asset, Val(amt)),
                     swap.quote.amount_out_with_slippage)

(***************************************************************************)
(* State.                                                                  *)
(***************************************************************************)
VARIABLES
    bot,        \* which bot runs: "twoway" or "threeway"
    assets,     \* the AlgoAsset objects get_configured_assets returned
    pc,         \* where the process is
    dir,        \* the direction being tried: 1 = (0, 1, 2), 2 = (0, 2, 1)
    lps,        \* the pool mappings resolved by the round trip, in lookup order
    swap_amount,            \* swap_amount_1 .. swap_amount_3 of the evaluation
    leg,                    \* the leg being quoted or executed
    swap_to_carry_out,      \* the intended swap, inside submit_swap the current one
    swap_carried_out,       \* the round trip's swap_carried_out: None or an outcome
    retry_with_new_quote,   \* submit_swap's argument
    submit_lps,             \* submit_swap's local lps
    helper_result,          \* what do_round_trip_helper returned
    \* history, not program state:
    verdicts,   \* per direction of this round: "none", "profitable", "unprofitable"
    attempts,   \* per leg of this direction: iterations of submit_swap's loop
    requotes,   \* per leg of this direction: requotes started by the except clause
    settled,    \* per leg of this direction: swaps of the leg settled on chain
    produced,   \* per leg of this direction: submit_swap returned an outcome
    failed_leg, \* the leg whose submit_swap call ended by raising (0: none)
    exit_leg,   \* the leg during which the process exited (0: none)
    read_back,  \* what the attempt that just succeeded read of the settled swap
    \* one call of get_liquidity_pools followed by get_highest_swap_amount_out:
    called,             \* the last helper called: "none" while a bot runs
    raise_flag,         \* the argument raise_error_on_missing_lp
    lp_answer,          \* what each DEX answers to the pool lookup
    asset_pair,         \* <<from_asset, to_asset>> as indexes into assets
    dex_pools,          \* the pool mapping get_liquidity_pools returned
    quote_failures,     \* the DEXs whose quote call raises
    quotes_returned,    \* the mapping get_swap_quotes returned
    highest_swap,       \* None or the SwapAmount get_highest_swap_amount_out returned
    raised,             \* the exception the last helper raised, or "none"
    lookup_ids,         \* per DEX, the <<asset1_id, asset2_id>> its pool lookup got
    quote_ids,          \* per DEX, the from_asset_id its quote call got
    responses,          \* per DEX, the scaled amount out its quote call answered
    scaling_call,       \* None or the asset, the amount and the result of a scaling
    \* the spot-trades bot:
    orderbook,          \* the order documents of the off-chain store, by _id
    cursor,             \* the _ids the for loop has still to handle
    swaps_completed,    \* run_bot's list of (_id, total_asset_out_received)
    handled             \* history: None or what became of the order handled last

vars == <<bot, assets, pc, dir, lps, swap_amount, leg, swap_to_carry_out,
          swap_carried_out, retry_with_new_quote, submit_lps, helper_result,
          verdicts, attempts, requotes, settled, produced, failed_leg, exit_leg,
          read_back, called, raise_flag, lp_answer, asset_pair, dex_pools, quote_failures,
          quotes_returned, highest_swap, raised, lookup_ids, quote_ids,
          responses, scaling_call, orderbook, cursor, swaps_completed, handled>>

config == <<bot, assets>>
spot == <<orderbook, cursor, swaps_completed, handled>>
helper_call == <<called, raise_flag, lp_answer, asset_pair, dex_pools,
                 quote_failures, quotes_returned, highest_swap, raised, lookup_ids,
                 quote_ids, responses, scaling_call>>
locals == <<lps, swap_amount, leg, swap_to_carry_out, swap_carried_out,
            retry_with_new_quote, submit_lps, helper_result>>
history == <<verdicts, attempts, requotes, settled, produced, failed_leg, exit_leg,
             read_back>>

NoLegs == [k \in 1..3 |-> 0]
NoneProduced == [k \in 1..3 |-> FALSE]
NoVerdicts == [d \in 1..2 |-> "none"]

\* slippage = float(env("arbitrage:...:amounts:slippage")), in percent
Slippage == SlippagePct

\* no helper is called on its own while a bot runs
NoHelperCall ==
    /\ called = "none"
    /\ raise_flag = TRUE
    /\ lp_answer = [dex \in DEXS |-> "ok"]
    /\ asset_pair = <<1, 2>>
    /\ dex_pools = {}
    /\ quote_failures = {}
    /\ quotes_returned = << >>
    /\ highest_swap = None
    /\ raised = "none"
    /\ lookup_ids = << >>
    /\ quote_ids = << >>
    /\ responses = << >>
    /\ scaling_call = None

\* the spot-trades bot does not run beside an arbitrage bot or a helper call
NoSpotTrades ==
    /\ orderbook = << >>
    /\ cursor = << >>
    /\ swaps_completed = << >>
    /\ handled = None

\* the state when run_bot enters its loop. The assets are either as
\* get_supported_algo_assets constructs them, and then the first quote raises
\* AttributeError in every round, or they carry the attribute the scaling methods
\* read, and then the round trips run as written
Init ==
    /\ bot \in BOTS
    /\ assets \in {[i \in 1..NumAssets(bot) |-> AlgoAsset(Catalog[i])],
                   [i \in 1..NumAssets(bot) |-> AlgoAssetWithAttr(Catalog[i])]}
    /\ pc = "loop"
    /\ dir = 1
    /\ lps = << >>
    /\ swap_amount = << >>
    /\ leg = 0
    /\ swap_to_carry_out = None
    /\ swap_carried_out = None
    /\ retry_with_new_quote = FALSE
    /\ submit_lps = {}
    /\ helper_result = FALSE
    /\ verdicts = NoVerdicts
    /\ attempts = NoLegs
    /\ requotes = NoLegs
    /\ settled = NoLegs
    /\ produced = NoneProduced
    /\ failed_leg = 0
    /\ exit_leg = 0
    /\ read_back = None
    /\ NoHelperCall
    /\ NoSpotTrades

\* the locals of a round trip that has not started or has been left
NoLocals ==
    /\ lps' = << >>
    /\ swap_amount' = << >>
    /\ leg' = 0
    /\ swap_to_carry_out' = None
    /\ swap_carried_out' = None
    /\ retry_with_new_quote' = FALSE
    /\ submit_lps' = {}
    /\ helper_result' = FALSE

\* an entry of a round trip that finds the locals the round trip before it left
EnterRoundTripKeepsLocals(d) ==
    /\ dir' = d
    /\ UNCHANGED locals
    /\ attempts' = NoLegs
    /\ requotes' = NoLegs
    /\ settled' = NoLegs
    /\ produced' = NoneProduced
    /\ pc' = "pools"

\* entry of a round trip in direction d
EnterRoundTrip(d) ==
    /\ dir' = d
    /\ NoLocals
    /\ attempts' = NoLegs
    /\ requotes' = NoLegs
    /\ settled' = NoLegs
    /\ produced' = NoneProduced
    /\ pc' = "pools"

\* run_bot: the loop calls do_round_trip, which starts with the first direction
StartRound ==
    /\ pc = "loop"
    /\ EnterRoundTrip(1)
    /\ verdicts' = NoVerdicts
    /\ failed_leg' = 0
    /\ UNCHANGED <<config, spot, helper_call, read_back, exit_leg>>

\* an exception leaves the round trip and reaches run_bot's except clause
Raise ==
    /\ pc' = "except"
    /\ NoLocals

\* one get_liquidity_pools call of the round trip (raise_error_on_missing_lp = True)
GetLiquidityPools ==
    /\ pc = "pools"
    /\ \E answer \in OneFailurePoolAnswers :
         IF get_liquidity_pools_raises(DEXS, answer, TRUE)
         THEN Raise
         ELSE /\ lps' = Append(lps, get_liquidity_pools(DEXS, answer))
              /\ IF Len(lps') = Len(PoolPairs(bot, dir))
                 THEN pc' = "quote" /\ leg' = 1
                 ELSE pc' = "pools" /\ leg' = leg
              /\ UNCHANGED <<swap_amount, swap_to_carry_out, swap_carried_out,
                             retry_with_new_quote, submit_lps, helper_result>>
    /\ UNCHANGED <<config, spot, helper_call, dir, history>>

\* one get_highest_swap_amount_out call of the evaluation: leg 1 for trade_amt, a
\* later leg for the amount out quoted for the leg before it
EvaluateLeg ==
    /\ pc = "quote"
    /\ LET from == LegFrom(bot, dir, leg)
           to == LegTo(bot, dir, leg)
           pools == lps[LegPools(bot, leg)]
           amount_in == IF leg = 1 THEN TradeAmt
                        ELSE NextEvalAmount(swap_amount[leg - 1])
       IN  \/ /\ ~get_highest_swap_amount_out_raises(pools, assets[from])
              /\ \E resp \in AdapterResponses(assets[to]) :
                   swap_amount' = Append(swap_amount,
                       get_highest_swap_amount_out(pools, assets, from, to, amount_in,
                                                   Slippage, resp))
              /\ IF leg = NumLegs(bot)
                 THEN pc' = "verdict" /\ leg' = leg
                 ELSE pc' = "quote" /\ leg' = leg + 1
              /\ UNCHANGED <<lps, swap_to_carry_out, swap_carried_out,
                             retry_with_new_quote, submit_lps, helper_result>>
           \/ \* a scaling method, a pool or an adapter raises
              Raise
    /\ UNCHANGED <<config, spot, helper_call, dir, history>>

\* what is kept of the evaluation once the arbitrage condition is met: swap_amount_1
\* is the intended swap of leg 1; of the other quotes, which the round trip does not
\* read again, the amount out of the last leg, which the condition tested
AfterVerdict(swap_amounts) ==
    << [amount_out |-> swap_amounts[Len(swap_amounts)].amount_out] >>

\* a round trip that submits leg 1 whatever the arbitrage condition says
VerdictSubmitsAnyway ==
    /\ pc = "verdict"
    /\ verdicts' = [verdicts EXCEPT ![dir] =
                       IF Profitable(swap_amount[NumLegs(bot)].amount_out, TradeAmt,
                                     MinProfit)
                       THEN "profitable" ELSE "unprofitable"]
    /\ leg' = 1
    /\ swap_to_carry_out' = Some(swap_amount[1])
    /\ retry_with_new_quote' = RetryFlag(1)
    /\ submit_lps' = lps[LegPools(bot, 1)]
    /\ swap_amount' = AfterVerdict(swap_amount)
    /\ pc' = "submit"
    /\ UNCHANGED <<config, spot, helper_call, read_back,
                   dir, lps, swap_carried_out, helper_result, attempts,
                   requotes, settled, produced, failed_leg, exit_leg>>

\* the arbitrage condition: profitable starts leg 1 with requote disabled,
\* unprofitable returns False from the round trip
Verdict ==
    /\ pc = "verdict"
    /\ IF Profitable(swap_amount[NumLegs(bot)].amount_out, TradeAmt, MinProfit)
       THEN /\ verdicts' = [verdicts EXCEPT ![dir] = "profitable"]
            /\ leg' = 1
            /\ swap_to_carry_out' = Some(swap_amount[1])
            /\ retry_with_new_quote' = RetryFlag(1)
            /\ submit_lps' = lps[LegPools(bot, 1)]
            /\ swap_amount' = AfterVerdict(swap_amount)
            /\ pc' = "submit"
            /\ UNCHANGED helper_result
       ELSE /\ verdicts' = [verdicts EXCEPT ![dir] = "unprofitable"]
            /\ helper_result' = FALSE
            /\ pc' = "helper_done"
            /\ UNCHANGED <<leg, swap_to_carry_out, retry_with_new_quote, submit_lps,
                           swap_amount>>
    /\ UNCHANGED <<config, spot, helper_call, read_back,
                   dir, lps, swap_carried_out, attempts, requotes,
                   settled, produced, failed_leg, exit_leg>>

\* an except clause that, without requote, returns the intended swap as the outcome
ExceptClauseReturnsIntended ==
    IF retry_with_new_quote
    THEN /\ pc' = "requote"
         /\ UNCHANGED swap_carried_out
    ELSE /\ pc' = "returned"
         /\ swap_carried_out' = swap_to_carry_out

\* an except clause that leaves the loop whatever retry_with_new_quote says
ExceptClauseNeverRetries ==
    /\ pc' = "returned"
    /\ swap_carried_out' = None

\* submit_swap's except clause: with requote it goes on to re-resolve the pools,
\* without it the loop is left and submit_swap returns None
ExceptClause ==
    IF retry_with_new_quote
    THEN /\ pc' = "requote"
         /\ UNCHANGED swap_carried_out
    ELSE /\ pc' = "returned"
         /\ swap_carried_out' = None

\* a loop that gives up after its first iteration
AttemptOnce ==
    /\ pc = "submit"
    /\ attempts[leg] < 1
    /\ attempts' = [attempts EXCEPT ![leg] = @ + 1]

\* an iteration of the loop starts
Attempt ==
    /\ pc = "submit"
    /\ attempts[leg] < MaxAttempts
    /\ attempts' = [attempts EXCEPT ![leg] = @ + 1]

\* an attempt that raises before a swap is settled: building, signing or submitting
\* the transaction group fails, or the else branch is given a quote that is a dict
SubmitRejected ==
    /\ Attempt
    /\ ExceptClause
    /\ UNCHANGED <<config, spot, helper_call, read_back,
                   dir, lps, swap_amount, leg, swap_to_carry_out,
                   retry_with_new_quote, submit_lps, helper_result, verdicts, requotes,
                   settled, produced, failed_leg, exit_leg>>

\* the two-way bot's Pact branch: wait_for_confirmation raises and the handler
\* calls sys.exit(1); SystemExit is no Exception and ends the process
SubmitConfirmFailed ==
    /\ Attempt
    /\ SubmitBranch(bot, Lower(Val(swap_to_carry_out).dex)) = "pact"
    /\ pc' = "exited"
    /\ exit_leg' = leg
    /\ UNCHANGED <<config, spot, helper_call, read_back,
                   dir, lps, swap_amount, leg, swap_to_carry_out,
                   swap_carried_out, retry_with_new_quote, submit_lps, helper_result,
                   verdicts, requotes, settled, produced, failed_leg>>

\* an attempt whose swap is confirmed and that raises afterwards: the read-back of
\* the settled amount, the fetch or the redeem of Tinyman's excess, or the
\* conversion of the amount raises
SubmitSettledThenRaised ==
    /\ Attempt
    /\ ~RaisesBeforeSending(bot, Val(swap_to_carry_out))
    /\ settled' = [settled EXCEPT ![leg] = @ + 1]
    /\ ExceptClause
    /\ UNCHANGED <<config, spot, helper_call, read_back,
                   dir, lps, swap_amount, leg, swap_to_carry_out,
                   retry_with_new_quote, submit_lps, helper_result, verdicts, requotes,
                   produced, failed_leg, exit_leg>>

\* what a successful attempt reads of the settled swap: the Algofi and the Pact
\* branch the amount of the ledger read-back, Tinyman's branch the excess
ReadBack(b, swap, amt, excess) ==
    IF SubmitBranch(b, Lower(swap.dex)) = "tinyman"
    THEN [amt |-> None, excess |-> excess]
    ELSE [amt |-> amt, excess |-> 0]

\* what is printed about a settled swap before submit_swap returns: the Algofi and
\* the Pact read-back dump the ledger's answer, Tinyman's branch prints the excess
\* if there is one; no branch and no caller prints the outcome's amount_out
SuccessReport(b, swap, rb) ==
    IF SubmitBranch(b, Lower(swap.dex)) # "tinyman" THEN "ledger answer"
    ELSE IF rb.excess # 0 THEN "excess"
    ELSE "nothing"

\* an attempt that succeeds: the swap is settled and submit_swap returns its outcome
SubmitSucceeded ==
    /\ Attempt
    /\ ~RaisesBeforeSending(bot, Val(swap_to_carry_out))
    /\ \E amt \in ReadBacks(assets[Val(swap_to_carry_out).to_asset]),
          excess \in Excesses(assets[Val(swap_to_carry_out).to_asset]) :
         /\ OutcomeNeedsScaling(bot, Val(swap_to_carry_out), amt)
              => ~ScalingRaises(assets[Val(swap_to_carry_out).to_asset])
         /\ swap_carried_out' =
              Some(SwapOutcome(bot, assets, Val(swap_to_carry_out), amt, excess))
         /\ read_back' = Some(ReadBack(bot, Val(swap_to_carry_out), amt, excess))
    /\ settled' = [settled EXCEPT ![leg] = @ + 1]
    /\ produced' = [produced EXCEPT ![leg] = TRUE]
    /\ pc' = "returned"
    /\ UNCHANGED <<config, spot, helper_call, dir, lps, swap_amount, leg, swap_to_carry_out,
                   retry_with_new_quote, submit_lps, helper_result, verdicts, requotes,
                   failed_leg, exit_leg>>

\* an exception raised inside submit_swap's except clause leaves submit_swap
RaiseFromSubmitSwap ==
    /\ Raise
    /\ failed_leg' = leg

\* an except clause that re-quotes for the amount the failed swap was to yield
RequoteArgumentsForAmountOut(swap) ==
    <<swap.from_asset, swap.to_asset, swap.amount_out, swap.slippage>>

\* from_asset, to_asset, asset_in_amt and slippage the except clause passes to
\* get_highest_swap_amount_out: the intended swap's, slippage read before the loop
RequoteArguments(swap) ==
    <<swap.from_asset, swap.to_asset, swap.amount_in, swap.slippage>>

\* the except clause with requote: get_liquidity_pools for the pair of the intended
\* swap, then get_highest_swap_amount_out for its amount_in and slippage
Requote ==
    /\ pc = "requote"
    /\ requotes' = [requotes EXCEPT ![leg] = @ + 1]
    /\ LET swap == Val(swap_to_carry_out)
       IN  \/ \E answer \in OneFailurePoolAnswers :
                IF get_liquidity_pools_raises(DEXS, answer, TRUE)
                THEN RaiseFromSubmitSwap
                ELSE /\ submit_lps' = get_liquidity_pools(DEXS, answer)
                     /\ ~get_highest_swap_amount_out_raises(submit_lps',
                                                            assets[swap.from_asset])
                     /\ \E resp \in AdapterResponses(assets[swap.to_asset]) :
                          swap_to_carry_out' =
                              Some(get_highest_swap_amount_out(submit_lps', assets,
                                       RequoteArguments(swap)[1],
                                       RequoteArguments(swap)[2],
                                       RequoteArguments(swap)[3],
                                       RequoteArguments(swap)[4], resp))
                     /\ pc' = "submit"
                     /\ UNCHANGED <<lps, swap_amount, leg, swap_carried_out,
                                    retry_with_new_quote, helper_result, failed_leg>>
           \/ \* the pools are resolved and the re-quote raises
              RaiseFromSubmitSwap
    /\ UNCHANGED <<config, spot, helper_call, read_back,
                   dir, verdicts, attempts, settled, produced,
                   exit_leg>>

(***************************************************************************)
(* The round trip after a leg, and run_bot's loop.                         *)
(***************************************************************************)
\* the round trip tests what submit_swap returned: None after leg 1 abandons the
\* round trip, None after a later leg calls sys.exit(1), an outcome of the last leg
\* completes the round trip, any other outcome goes on to quote the next leg
Returned ==
    /\ pc = "returned"
    /\ IF IsNone(swap_carried_out)
       THEN IF leg = 1
            THEN /\ helper_result' = FALSE
                 /\ pc' = "helper_done"
                 /\ UNCHANGED exit_leg
            ELSE /\ pc' = "exited"
                 /\ exit_leg' = leg
                 /\ UNCHANGED helper_result
       ELSE /\ IF leg = NumLegs(bot)
               THEN helper_result' = TRUE /\ pc' = "helper_done"
               ELSE helper_result' = helper_result /\ pc' = "next_quote"
            /\ UNCHANGED exit_leg
    /\ read_back' = None
    /\ UNCHANGED <<config, spot, helper_call, dir, lps, swap_amount, leg, swap_to_carry_out,
                   swap_carried_out, retry_with_new_quote, submit_lps, verdicts,
                   attempts, requotes, settled, produced, failed_leg>>

\* the next leg is quoted for the amount the leg before it produced and submitted
\* with requote enabled
QuoteNextLeg ==
    /\ pc = "next_quote"
    /\ LET k == leg + 1
           from == LegFrom(bot, dir, k)
           to == LegTo(bot, dir, k)
           pools == lps[LegPools(bot, k)]
           amount_in == NextSwapAmount(Val(swap_carried_out))
       IN  \/ /\ ~get_highest_swap_amount_out_raises(pools, assets[from])
              /\ \E resp \in AdapterResponses(assets[to]) :
                   swap_to_carry_out' =
                       Some(get_highest_swap_amount_out(pools, assets, from, to,
                                                        amount_in, Slippage, resp))
              /\ leg' = k
              /\ retry_with_new_quote' = RetryFlag(k)
              /\ submit_lps' = pools
              /\ pc' = "submit"
              /\ UNCHANGED <<lps, swap_amount, swap_carried_out, helper_result>>
           \/ \* a pool or an adapter raises
              Raise
    /\ UNCHANGED <<config, spot, helper_call, dir, history>>

\* a do_round_trip that tries the second direction whatever the first returned
SecondDirectionAlways(b, d, arbitrage_fullfilled) == b = "threeway" /\ d = 1

\* a do_round_trip that never tries the second direction
SecondDirectionNever(b, d, arbitrage_fullfilled) == FALSE

\* the three-way bot's do_round_trip tries the second direction after the first
\* returned False
SecondDirection(b, d, arbitrage_fullfilled) ==
    b = "threeway" /\ d = 1 /\ ~arbitrage_fullfilled

\* a round trip has returned: do_round_trip calls the second direction or returns
HelperDone ==
    /\ pc = "helper_done"
    /\ IF SecondDirection(bot, dir, helper_result)
       THEN EnterRoundTrip(2)
       ELSE /\ pc' = "sleep"
            /\ NoLocals
            /\ UNCHANGED <<dir, attempts, requotes, settled, produced>>
    /\ UNCHANGED <<config, spot, helper_call, read_back, verdicts, failed_leg, exit_leg>>

\* do_round_trip returned to run_bot: the separator is printed, the bot sleeps
Sleep ==
    /\ pc = "sleep"
    /\ pc' = "loop"
    /\ UNCHANGED <<config, spot, helper_call, dir, locals, history>>

\* an except clause that goes back to the pool lookups of the same round trip
ExceptRetriesLookup ==
    /\ pc = "except"
    /\ pc' = "pools"
    /\ UNCHANGED <<config, spot, helper_call, dir, locals, history>>

\* run_bot's except clause: the traceback is printed and the loop goes on
Except ==
    /\ pc = "except"
    /\ pc' = "loop"
    /\ UNCHANGED <<config, spot, helper_call, dir, locals, history>>

Next ==
    \/ StartRound
    \/ GetLiquidityPools
    \/ EvaluateLeg
    \/ Verdict
    \/ SubmitRejected
    \/ SubmitConfirmFailed
    \/ SubmitSettledThenRaised
    \/ SubmitSucceeded
    \/ Requote
    \/ Returned
    \/ QuoteNextLeg
    \/ HelperDone
    \/ Sleep
    \/ Except

Spec == Init /\ [][Next]_vars

(***************************************************************************)
(* The helpers called on their own: get_liquidity_pools with either value  *)
(* of raise_error_on_missing_lp, then get_highest_swap_amount_out on the   *)
(* pools it returned.                                                      *)
(***************************************************************************)
\* the exception get_liquidity_pools raises, "none" when it returns: the DEXs are
\* looked up in the order algofi, tinyman, pactfi
get_liquidity_pools_error(amm_clients, answer, raise_error_on_missing_lp) ==
    IF /\ "algofi" \in amm_clients /\ answer["algofi"] # "ok"
       /\ raise_error_on_missing_lp
    THEN "AlgofiLPNotFoundError"
    ELSE IF /\ "tinyman" \in amm_clients /\ answer["tinyman"] # "ok"
            /\ raise_error_on_missing_lp
    THEN "TinymanLPNotFoundError"
    ELSE IF /\ "tinyman" \in amm_clients /\ answer["tinyman"] = "error"
            /\ ~raise_error_on_missing_lp
    THEN "UnboundLocalError"
    ELSE IF /\ "pactfi" \in amm_clients /\ answer["pactfi"] # "ok"
            /\ raise_error_on_missing_lp
    THEN "PactLPNotFoundError"
    ELSE "none"

\* the exception get_swap_quotes raises, "none" when it returns: no quote call is
\* inside a try statement, so the exception of a DEX's quote call propagates
get_swap_quotes_error(pools, from_asset, failures) ==
    IF ScalingRaises(from_asset) THEN "AttributeError"
    ELSE IF "pactfi" \notin pools THEN "KeyError"
    ELSE IF failures \cap pools # {} THEN "AdapterError"
    ELSE "none"

\* the DEXs whose lookup get_liquidity_pools reaches when it ends with error
LookupsMade(amm_clients, error) ==
    {dex \in amm_clients :
        \/ dex = "algofi"
        \/ dex = "tinyman" /\ error # "AlgofiLPNotFoundError"
        \/ dex = "pactfi" /\ error \in {"PactLPNotFoundError", "none"}}

\* the slippage tolerances the helpers are called with: the configured one and 1.0
Slippages == {Slippage, 100}

\* the helpers are about to be called: any flag, any answers of the DEXs, any pair,
\* ALGO configured with the id 0 or with the id 1
InitHelpers ==
    /\ bot = "threeway"
    /\ assets \in {[i \in 1..3 |-> AlgoAsset(Catalog[i])],
                   [i \in 1..3 |-> AlgoAssetWithAttr(Catalog[i])],
                   [i \in 1..3 |-> AlgoAsset(CatalogAlgoAsOne[i])],
                   [i \in 1..3 |-> AlgoAssetWithAttr(CatalogAlgoAsOne[i])]}
    /\ pc = "loop"
    /\ dir = 1
    /\ lps = << >>
    /\ swap_amount = << >>
    /\ leg = 0
    /\ swap_to_carry_out = None
    /\ swap_carried_out = None
    /\ retry_with_new_quote = FALSE
    /\ submit_lps = {}
    /\ helper_result = FALSE
    /\ verdicts = NoVerdicts
    /\ attempts = NoLegs
    /\ requotes = NoLegs
    /\ settled = NoLegs
    /\ produced = NoneProduced
    /\ failed_leg = 0
    /\ exit_leg = 0
    /\ read_back = None
    /\ called = "start"
    /\ raise_flag \in BOOLEAN
    /\ lp_answer \in PoolAnswers
    /\ asset_pair \in {<<1, 2>>, <<2, 1>>, <<1, 3>>}
    /\ dex_pools = {}
    /\ quote_failures = {}
    /\ quotes_returned = << >>
    /\ highest_swap = None
    /\ raised = "none"
    /\ lookup_ids = << >>
    /\ quote_ids = << >>
    /\ responses = << >>
    /\ scaling_call = None
    /\ NoSpotTrades

\* pools = get_liquidity_pools(amm_clients, asset1_id, asset2_id, raise_flag)
CallGetLiquidityPools ==
    /\ called = "start"
    /\ called' = "get_liquidity_pools"
    /\ raised' = get_liquidity_pools_error(DEXS, lp_answer, raise_flag)
    /\ dex_pools' = IF get_liquidity_pools_raises(DEXS, lp_answer, raise_flag)
                    THEN {}
                    ELSE get_liquidity_pools(DEXS, lp_answer)
    /\ lookup_ids' =
           [dex \in LookupsMade(DEXS, get_liquidity_pools_error(DEXS, lp_answer,
                                                                raise_flag)) |->
               <<LookupAssetId(DEXS, dex, assets[asset_pair[1]].asset_onchain_id),
                 LookupAssetId(DEXS, dex, assets[asset_pair[2]].asset_onchain_id)>>]
    /\ UNCHANGED <<config, spot, pc, dir, locals, history, raise_flag, lp_answer, asset_pair,
                   quote_failures, quotes_returned, highest_swap, quote_ids,
                   responses, scaling_call>>

\* get_highest_swap_amount_out(amm_clients, pools, from_asset, to_asset, trade_amt,
\* slippage) on the pools returned, the DEXs answering any amounts or failing
CallGetHighestSwapAmountOut ==
    /\ called = "get_liquidity_pools"
    /\ raised = "none"
    /\ called' = "get_highest_swap_amount_out"
    /\ \E resp \in AdapterResponses(assets[asset_pair[2]]),
          failures \in SUBSET DEXS, slippage \in Slippages :
         LET error == get_swap_quotes_error(dex_pools, assets[asset_pair[1]],
                                            failures)
         IN  /\ quote_failures' = failures
             /\ raised' = error
             /\ IF error # "none"
                THEN /\ quotes_returned' = << >>
                     /\ highest_swap' = None
                     /\ quote_ids' = << >>
                     /\ responses' = << >>
                ELSE /\ quote_ids' =
                            [dex \in dex_pools |->
                                QuoteAssetId(dex,
                                    assets[asset_pair[1]].asset_onchain_id)]
                     /\ responses' = [dex \in dex_pools |-> resp[dex]]
                     /\ quotes_returned' =
                            get_swap_quotes(dex_pools, assets[asset_pair[1]],
                                            assets[asset_pair[2]], TradeAmt,
                                            slippage, resp)
                     /\ highest_swap' =
                            Some(get_highest_swap_amount_out(dex_pools, assets,
                                     asset_pair[1], asset_pair[2], TradeAmt,
                                     slippage, resp))
    /\ UNCHANGED <<config, spot, pc, dir, locals, history, raise_flag, lp_answer, asset_pair,
                   dex_pools, lookup_ids, scaling_call>>

\* the amounts the scaling methods are called on: trade_amt and the amounts that
\* get_unscaled_from_scaled_amount returns for 0..MaxScaledAmount base units
Amounts(asset) ==
    {TradeAmt} \cup
    {get_unscaled_from_scaled_amount(
         [asset EXCEPT !.num_decimal_places = asset.decimals], n) :
       n \in 0..MaxScaledAmount}

\* asset.get_unscaled_from_scaled_amount(asset.get_scaled_amount(amount))
CallScaling ==
    /\ called = "start"
    /\ called' = "scaling"
    /\ \E i \in 1..3 : \E amount \in Amounts(assets[i]) :
         IF ScalingRaises(assets[i])
         THEN /\ raised' = "AttributeError"
              /\ scaling_call' = Some([asset |-> i, amount |-> amount,
                                       scaled |-> None, result |-> None])
         ELSE /\ raised' = "none"
              /\ scaling_call' =
                    LET scaled == get_scaled_amount(assets[i], amount)
                    IN  Some([asset |-> i, amount |-> amount, scaled |-> Some(scaled),
                              result |-> Some(get_unscaled_from_scaled_amount(
                                                  assets[i], scaled))])
    /\ UNCHANGED <<config, spot, pc, dir, locals, history, raise_flag, lp_answer, asset_pair,
                   dex_pools, quote_failures, quotes_returned, highest_swap,
                   lookup_ids, quote_ids, responses>>

NextHelpers ==
    \/ CallGetLiquidityPools
    \/ CallGetHighestSwapAmountOut
    \/ CallScaling

SpecHelpers == InitHelpers /\ [][NextHelpers]_vars

(***************************************************************************)
(* The spot-trades bot: bots/spottrades.py, run_bot.                       *)
(***************************************************************************)
\* doc["amt_to_buy_sell"] of the orders explored: one unit of the asset given
AmtToBuySell == DecimalOf(1, 0)

\* doc["min_amt_to_receive_per_unit"] and doc["max_amt_to_receive_per_unit"] of the
\* orders explored: 0.25, which Decimal(...) takes over exactly from a string and
\* from a double
PerUnitLimit == DecimalOf(25, 2)

\* a document of orderbook as it is when the bot starts: active, not completed
\* (None: the key is absent)
OrderDoc(order_type, min_per_unit, max_per_unit) ==
    [order_type |-> order_type, asset_to_buy_sell |-> 1,
     asset_to_buy_with_sell_to |-> 2, amt_to_buy_sell |-> AmtToBuySell,
     slippage |-> Slippage, min_amt_to_receive_per_unit |-> min_per_unit,
     max_amt_to_receive_per_unit |-> max_per_unit, is_active |-> TRUE,
     is_completed |-> FALSE, amt_received |-> None]

\* the orders explored, of asset 1 against asset 2: a sell with a minimum, a buy
\* with a maximum, a buy with both and a sell with neither
OrderDocs ==
    {OrderDoc("sell", Some(PerUnitLimit), None),
     OrderDoc("buy", None, Some(PerUnitLimit)),
     OrderDoc("buy", Some(PerUnitLimit), Some(PerUnitLimit)),
     OrderDoc("sell", None, None)}

\* asset_in_id and asset_out_id of an order
asset_in_id(doc) ==
    IF doc.order_type = "buy" THEN doc.asset_to_buy_with_sell_to
    ELSE doc.asset_to_buy_sell
asset_out_id(doc) ==
    IF doc.order_type = "buy" THEN doc.asset_to_buy_sell
    ELSE doc.asset_to_buy_with_sell_to

\* a sequence's elements of a set of _ids in ascending order
RECURSIVE Ascending(_)
Ascending(ids) ==
    IF ids = {} THEN << >>
    ELSE LET first == CHOOSE o \in ids : \A other \in ids : o <= other
         IN  <<first>> \o Ascending(ids \ {first})

\* db.orderbook.find({'user_id': user_id, 'is_active': True, 'is_completed': False})
find(book) ==
    Ascending({o \in DOMAIN book : book[o].is_active /\ ~book[o].is_completed})

\* the exception the lookup and the quoting of an order's try block raise, "none"
\* when both return: get_liquidity_pools is called with its default
\* raise_error_on_missing_lp = True, then get_swap_quotes, then Tinyman's figure is
\* converted with the AlgoAsset's method
OrderQuoteError(supported_assets, doc, answer, failures) ==
    IF get_liquidity_pools_error(DEXS, answer, TRUE) # "none"
    THEN get_liquidity_pools_error(DEXS, answer, TRUE)
    ELSE IF get_swap_quotes_error(get_liquidity_pools(DEXS, answer),
                                  supported_assets[asset_in_id(doc)], failures)
            # "none"
    THEN get_swap_quotes_error(get_liquidity_pools(DEXS, answer),
                               supported_assets[asset_in_id(doc)], failures)
    ELSE IF ScalingRaises(supported_assets[asset_out_id(doc)])
    THEN "AttributeError"
    ELSE "none"

\* quotes = get_swap_quotes(amm_clients, lps, asset_in, asset_out,
\*                          Decimal(amt_to_buy_sell), float(doc["slippage"]))
OrderQuotes(supported_assets, doc, resp) ==
    get_swap_quotes(DEXS, supported_assets[asset_in_id(doc)],
                    supported_assets[asset_out_id(doc)], doc.amt_to_buy_sell,
                    doc.slippage, resp)

\* the three figures the bot compares, in units of asset_out:
\* tinyman_amount_out_with_slippage, quotes["algofi"]["amount_out_with_slippage"]
\* and quotes["pactfi"]["amount_out_with_slippage"]
AmountsOutWithSlippage(to_asset, quotes) ==
    [dex \in DEXS |->
        IF dex = "tinyman"
        THEN get_unscaled_from_scaled_amount(to_asset,
                                             quotes[dex].amount_out_with_slippage)
        ELSE quotes[dex].amount_out_with_slippage]

\* Decimal(per_unit) * Decimal(amt_to_buy_sell) for two exact decimals
buy_sell_amt(per_unit, amt) ==
    3 * ((DecTicks(per_unit) * DecTicks(amt)) \div Pow10(Prec))

\* neither key is in doc: "Order not configured properly. Skipping this order."
NotConfigured(doc) ==
    IsNone(doc.min_amt_to_receive_per_unit) /\ IsNone(doc.max_amt_to_receive_per_unit)

\* requirement_met after the if / elif on the keys of doc: the minimum is tested
\* when it is set, the maximum only when the minimum is not
requirement_met(doc, figures) ==
    IF ~IsNone(doc.min_amt_to_receive_per_unit)
    THEN \E dex \in DEXS :
            figures[dex] >= buy_sell_amt(Val(doc.min_amt_to_receive_per_unit),
                                         doc.amt_to_buy_sell)
    ELSE IF ~IsNone(doc.max_amt_to_receive_per_unit)
    THEN \E dex \in DEXS :
            figures[dex] <= buy_sell_amt(Val(doc.max_amt_to_receive_per_unit),
                                         doc.amt_to_buy_sell)
    ELSE FALSE

\* a choice of the DEX that takes Tinyman whatever the figures are
ExecutingDexTinyman(figures) == "tinyman"

\* the DEX the swap is executed on: the if / elif / else on the three figures
ExecutingDex(figures) ==
    IF /\ figures["algofi"] >= figures["tinyman"]
       /\ figures["algofi"] >= figures["pactfi"]
    THEN "algofi"
    ELSE IF /\ figures["pactfi"] >= figures["tinyman"]
            /\ figures["pactfi"] >= figures["algofi"]
    THEN "pactfi"
    ELSE "tinyman"

\* total_asset_out_received when the branch of dex has run to its end: the amount
\* read back from the ledger if there is one, else the quoted figure; for Tinyman
\* the quoted scaled minimum plus the excess redeemed, unscaled
total_asset_out_received(to_asset, quotes, figures, dex, amt, excess) ==
    IF dex = "tinyman"
    THEN get_unscaled_from_scaled_amount(to_asset,
             quotes[dex].amount_out_with_slippage + excess)
    ELSE IF IsNone(amt) THEN figures[dex]
    ELSE get_unscaled_from_scaled_amount(to_asset, Val(amt))

\* what is remembered of the order handled last: what became of it and, when its
\* swap went to a DEX, the DEX and the figure amount_out_with_slippage of that DEX
Handled(o, outcome, figures, dex) ==
    Some([order |-> o, outcome |-> outcome, dex |-> dex,
          figure |-> IF dex \in DEXS THEN Some(figures[dex]) ELSE None])

\* the state when run_bot of the spot-trades bot enters its loop: the assets as
\* get_supported_algo_assets constructs them, or with the attribute the scaling
\* methods read; swaps_completed is empty
InitSpotTrades ==
    /\ bot = "spottrades"
    /\ assets \in {[i \in 1..3 |-> AlgoAsset(Catalog[i])],
                   [i \in 1..3 |-> AlgoAssetWithAttr(Catalog[i])]}
    /\ pc = "query"
    /\ dir = 1
    /\ lps = << >>
    /\ swap_amount = << >>
    /\ leg = 0
    /\ swap_to_carry_out = None
    /\ swap_carried_out = None
    /\ retry_with_new_quote = FALSE
    /\ submit_lps = {}
    /\ helper_result = FALSE
    /\ verdicts = NoVerdicts
    /\ attempts = NoLegs
    /\ requotes = NoLegs
    /\ settled = NoLegs
    /\ produced = NoneProduced
    /\ failed_leg = 0
    /\ exit_leg = 0
    /\ read_back = None
    /\ NoHelperCall
    /\ orderbook \in [1..MaxOrders -> OrderDocs]
    /\ cursor = << >>
    /\ swaps_completed = << >>
    /\ handled = None

\* cursor = db.orderbook.find(...): the for loop starts on the orders found
QueryOrderBook ==
    /\ pc = "query"
    /\ pc' = "orders"
    /\ cursor' = find(orderbook)
    /\ UNCHANGED <<config, helper_call, dir, locals, history, orderbook,
                   swaps_completed, handled>>

\* the query raises RuntimeError: the handler prints it and calls sys.exit(1)
QueryRaised ==
    /\ pc = "query"
    /\ pc' = "exited"
    /\ UNCHANGED <<config, helper_call, dir, locals, history, spot>>

\* the for loop is at an order
AtOrder == pc = "orders" /\ cursor # << >>

\* doc of the for loop and its asset_out
doc == orderbook[Head(cursor)]
asset_out == assets[asset_out_id(doc)]

\* the order's except clause, or the end of its try block: on to the next order
NextOrder ==
    /\ pc' = "orders"
    /\ cursor' = Tail(cursor)

\* the pool lookup, the quoting or the conversion of Tinyman's figure raises: the
\* except clause prints the error
OrderQuoteRaised ==
    /\ AtOrder
    /\ \E answer \in OneFailurePoolAnswers, failures \in SUBSET DEXS :
          OrderQuoteError(assets, doc, answer, failures) # "none"
    /\ handled' = Handled(Head(cursor), "error", << >>, "none")
    /\ NextOrder
    /\ UNCHANGED <<config, helper_call, dir, locals, history, orderbook,
                   swaps_completed>>

\* the order's quotes are there: every DEX has a pool and answers with an amount,
\* and the conversions do not raise
Quoted ==
    /\ AtOrder
    /\ OrderQuoteError(assets, doc, [dex \in DEXS |-> "ok"], {}) = "none"

\* the three figures of the order for the answers resp of the DEXs
FiguresFor(resp) ==
    AmountsOutWithSlippage(asset_out, OrderQuotes(assets, doc, resp))

\* neither limit is set: the order is skipped with continue
OrderSkipped ==
    /\ Quoted
    /\ NotConfigured(doc)
    /\ handled' = Handled(Head(cursor), "skipped", << >>, "none")
    /\ NextOrder
    /\ UNCHANGED <<config, helper_call, dir, locals, history, orderbook,
                   swaps_completed>>

\* "Swap requirement not yet met."
OrderNotMet ==
    /\ Quoted
    /\ ~NotConfigured(doc)
    /\ \E resp \in AdapterResponses(asset_out) :
          ~requirement_met(doc, FiguresFor(resp))
    /\ handled' = Handled(Head(cursor), "not met", << >>, "none")
    /\ NextOrder
    /\ UNCHANGED <<config, helper_call, dir, locals, history, orderbook,
                   swaps_completed>>

\* the DEXs an order's swap can go to with the figure the DEX quoted, over the
\* answers of the DEXs for which the requirement is met
Executions ==
    {<<ExecutingDex(figures), figures[ExecutingDex(figures)]>> :
        figures \in {f \in {FiguresFor(resp) : resp \in AdapterResponses(asset_out)} :
                        requirement_met(doc, f)}}

\* what remains of an execution on dex with the figure it quoted
Executed(outcome, execution) ==
    Handled(Head(cursor), outcome, [dex \in {execution[1]} |-> execution[2]],
            execution[1])

\* the requirement is met and the DEX chosen rejects the swap: building, signing
\* or submitting the transactions raises and the except clause prints the error
OrderSwapRejected ==
    /\ Quoted
    /\ ~NotConfigured(doc)
    /\ \E execution \in Executions : handled' = Executed("error", execution)
    /\ NextOrder
    /\ UNCHANGED <<config, helper_call, dir, locals, history, orderbook,
                   swaps_completed>>

\* the Pact branch: wait_for_confirmation raises, the handler prints the error and
\* calls sys.exit(1); SystemExit is no Exception and ends the process
OrderConfirmFailed ==
    /\ Quoted
    /\ ~NotConfigured(doc)
    /\ \E execution \in Executions :
          /\ execution[1] = "pactfi"
          /\ handled' = Executed("exited", execution)
    /\ pc' = "exited"
    /\ UNCHANGED <<config, helper_call, dir, locals, history, orderbook, cursor,
                   swaps_completed>>

\* the swap is confirmed and the branch raises afterwards: the read-back of the
\* amount, or the fetch or the redeem of Tinyman's excess; the except clause prints
\* the error and nothing is appended to swaps_completed
OrderSwappedThenRaised ==
    /\ Quoted
    /\ ~NotConfigured(doc)
    /\ \E execution \in Executions :
          handled' = Executed("swapped, error", execution)
    /\ NextOrder
    /\ UNCHANGED <<config, helper_call, dir, locals, history, orderbook,
                   swaps_completed>>

\* what the ledger read-back of an order's settled swap returns: None or the scaled
\* amount paid out, of which one value is explored
OrderReadBacks(to_asset) ==
    {None, Some(MinQuoteLevel * Pow10(to_asset.decimals - 1))}

\* the executions that run to their end, each with its total_asset_out_received,
\* over the answers of the DEXs, of the ledger read-back and of Tinyman's excess
Completions ==
    UNION {LET quotes == OrderQuotes(assets, doc, resp)
               figures == AmountsOutWithSlippage(asset_out, quotes)
               dex == ExecutingDex(figures)
           IN  IF ~requirement_met(doc, figures) THEN {}
               ELSE {<<dex, figures[dex],
                       total_asset_out_received(asset_out, quotes, figures, dex,
                                                amt, excess)>> :
                        amt \in OrderReadBacks(asset_out),
                        excess \in Excesses(asset_out)} :
           resp \in AdapterResponses(asset_out)}

\* "Swap completed!": the branch runs to its end and the order is appended to
\* swaps_completed with the amount received
OrderCompleted ==
    /\ Quoted
    /\ ~NotConfigured(doc)
    /\ \E completion \in Completions :
          /\ handled' = Executed("completed", completion)
          /\ swaps_completed' =
                Append(swaps_completed, <<Head(cursor), completion[3]>>)
    /\ NextOrder
    /\ UNCHANGED <<config, helper_call, dir, locals, history, orderbook>>

\* the store after update_one has run for the first n entries of swaps_completed;
\* amt_received is float(swap[1]): every total is the value of a double or half of
\* one, which float returns as it is
Updated(book, swaps, n) ==
    [o \in DOMAIN book |->
        IF \E i \in 1..n : swaps[i][1] = o
        THEN LET last == CHOOSE i \in 1..n :
                            /\ swaps[i][1] = o
                            /\ \A j \in 1..n : swaps[j][1] = o => j <= i
             IN  [book[o] EXCEPT !.is_completed = TRUE,
                                 !.amt_received = Some(swaps[last][2])]
        ELSE book[o]]

\* the for loop over the cursor is over: every entry of swaps_completed is marked
\* completed in the store, the list is cleared and the bot sleeps
UpdateCompleted ==
    /\ pc = "orders"
    /\ cursor = << >>
    /\ orderbook' = Updated(orderbook, swaps_completed, Len(swaps_completed))
    /\ swaps_completed' = << >>
    /\ handled' = None
    /\ pc' = "sleep"
    /\ UNCHANGED <<config, helper_call, dir, locals, history, cursor>>

\* an update_one raises: no handler, the exception ends run_bot and the process
\* after the entries before it have been marked
UpdateRaised ==
    /\ pc = "orders"
    /\ cursor = << >>
    /\ \E n \in 0..(Len(swaps_completed) - 1) :
          orderbook' = Updated(orderbook, swaps_completed, n)
    /\ pc' = "raised"
    /\ UNCHANGED <<config, helper_call, dir, locals, history, cursor,
                   swaps_completed, handled>>

\* time.sleep(float(env("arbitrage:orderbook:delay"))), then the next query
SleepSpotTrades ==
    /\ bot = "spottrades"
    /\ pc = "sleep"
    /\ pc' = "query"
    /\ UNCHANGED <<config, helper_call, dir, locals, history, spot>>

NextSpotTrades ==
    \/ QueryOrderBook
    \/ QueryRaised
    \/ OrderQuoteRaised
    \/ OrderSkipped
    \/ OrderNotMet
    \/ OrderSwapRejected
    \/ OrderConfirmFailed
    \/ OrderSwappedThenRaised
    \/ OrderCompleted
    \/ UpdateCompleted
    \/ UpdateRaised
    \/ SleepSpotTrades

SpecSpotTrades == InitSpotTrades /\ [][NextSpotTrades]_vars

(***************************************************************************)
(* Properties.                                                             *)
(***************************************************************************)
InSubmitSwap == pc \in {"submit", "requote"}
Evaluating == pc \in {"pools", "quote", "verdict"}
Threshold == TradeAmt + MinProfit

\* C1: once a leg >= 2 has ended without an outcome (its submit_swap call raised
\* while re-resolving pools or re-quoting) the process stops: run_bot starts no
\* further polling round
C1_FatalLegStopsProcess ==
    [][(failed_leg >= 2 /\ settled[1] > 0) => ~(pc = "loop" /\ pc' = "pools")]_vars

\* C2: a failure during the execution of leg 1 never terminates the process
C2_Leg1FailureAbsorbed == ~(pc = "exited" /\ exit_leg = 1)

\* C3: when submit_swap returns None for leg 1, no swap of leg 1 has been settled
C3_NoPartialStateAfterLeg1None ==
    (pc = "returned" /\ leg = 1 /\ IsNone(swap_carried_out)) => settled[1] = 0

C5_LaterLegsUseActualOutput ==
    (InSubmitSwap /\ leg >= 2) =>
        /\ retry_with_new_quote
        /\ produced[leg - 1]
        /\ ~IsNone(swap_carried_out)
        /\ Val(swap_to_carry_out).amount_in = Val(swap_carried_out).amount_out

\* leg 2 is about to be submitted again after a requote, for an amount that differs
\* from the amount leg 1 was quoted to yield during the evaluation
C5_Witness ==
    /\ pc = "submit"
    /\ leg = 2
    /\ requotes[2] >= 1
    /\ Val(swap_carried_out).quote.source = "algofi"
    /\ Val(swap_to_carry_out).amount_in # Val(swap_carried_out).quote.amount_out

\* C6: legs are sequential: a leg is attempted only after the leg before it has
\* produced an outcome in the same round trip; after a leg 2 without an outcome no
\* leg 3 is attempted
C6_LegsSequential ==
    /\ \A k \in 1..2 : attempts[k + 1] > 0 => produced[k]
    /\ \A k \in 1..2 : (InSubmitSwap /\ leg = k + 1) => produced[k]
    /\ ~produced[2] => attempts[3] = 0

\* leg 2 of a three-leg round trip ended without an outcome and leg 3 was not tried
C6_Witness ==
    /\ bot = "threeway"
    /\ pc = "except"
    /\ failed_leg = 2
    /\ attempts[2] >= 1
    /\ attempts[3] = 0

\* C7: no swap is submitted while a direction is evaluated, and none at all for a
\* direction whose verdict is not profitable
C7_NoSubmissionWithoutVerdict ==
    /\ Evaluating => (attempts = NoLegs /\ settled = NoLegs)
    /\ (\E k \in 1..3 : attempts[k] > 0 \/ settled[k] > 0) =>
           verdicts[dir] = "profitable"
    /\ (InSubmitSwap \/ pc \in {"returned", "next_quote"}) =>
           verdicts[dir] = "profitable"

\* a direction was found unprofitable and its round trip returned without a swap
C7_Witness ==
    /\ pc = "helper_done"
    /\ verdicts[dir] = "unprofitable"
    /\ attempts = NoLegs
    /\ settled = NoLegs

\* C8: the verdict is profitable exactly when the amount out quoted for the last
\* leg is at least trade_amt + min_profit
C8_VerdictIffThreshold ==
    (verdicts[dir] # "none" /\ swap_amount # << >>) =>
        (verdicts[dir] = "profitable" <=>
            swap_amount[Len(swap_amount)].amount_out >= TradeAmt + MinProfit)

\* the boundary: the last leg is quoted exactly trade_amt + min_profit and the
\* verdict is profitable
C8_Witness ==
    /\ verdicts[dir] = "profitable"
    /\ swap_amount # << >>
    /\ swap_amount[Len(swap_amount)].amount_out = Threshold

\* C9: during evaluation leg 1 is quoted for trade_amt and leg k + 1 for the raw
\* amount_out of the quote selected for leg k
C9_EvaluationChainsRawAmounts ==
    pc \in {"quote", "verdict"} =>
        \A k \in 1..Len(swap_amount) :
            swap_amount[k].amount_in =
                IF k = 1 THEN TradeAmt ELSE swap_amount[k - 1].amount_out

\* all legs of a three-leg plan are quoted and the raw and the slippage-adjusted
\* amounts of the first two differ
C9_Witness ==
    /\ pc = "verdict"
    /\ Len(swap_amount) = 3
    /\ \A k \in 1..2 :
         swap_amount[k].amount_out # swap_amount[k].amount_out_with_slippage

\* C10: in the three-way bot, after the first direction is found unprofitable the
\* second direction is entered in the same round, and do_round_trip returns only
\* with the verdict of the second direction computed
C10_SecondDirectionEvaluated ==
    (bot = "threeway" /\ verdicts[1] = "unprofitable") =>
        /\ dir = 2 \/ pc = "helper_done"
        /\ pc = "sleep" => verdicts[2] # "none"

\* both directions were evaluated and found unprofitable, and the round is over
C10_Witness ==
    /\ bot = "threeway"
    /\ pc = "sleep"
    /\ verdicts[1] = "unprofitable"
    /\ verdicts[2] = "unprofitable"

\* C11: in a three-asset cycle whose first direction is found unprofitable, nothing
\* is submitted while the first direction is tried, and every swap submitted in the
\* round is a leg of the second direction: asset 1 to 3, then 3 to 2, then 2 to 1
C11_SecondDirectionOnly ==
    (bot = "threeway" /\ verdicts[1] = "unprofitable") =>
        /\ dir = 1 => (attempts = NoLegs /\ settled = NoLegs /\ ~InSubmitSwap)
        /\ InSubmitSwap =>
               /\ dir = 2
               /\ verdicts[2] = "profitable"
               /\ Val(swap_to_carry_out).from_asset = <<1, 3, 2>>[leg]
               /\ Val(swap_to_carry_out).to_asset = <<3, 2, 1>>[leg]

\* the first direction was unprofitable, the second profitable, and the last leg of
\* the second direction is being submitted
C11_Witness ==
    /\ bot = "threeway"
    /\ verdicts[1] = "unprofitable"
    /\ verdicts[2] = "profitable"
    /\ pc = "submit"
    /\ leg = 3
    /\ attempts[1] = 1
    /\ attempts[2] >= 1

HelpersReturned == called = "get_highest_swap_amount_out" /\ raised = "none"
WithAttr == [i \in 1..3 |-> AlgoAssetWithAttr(Catalog[i])]

\* C12: the SwapAmount get_highest_swap_amount_out returns carries an entry of the
\* quote mapping whose raw amount_out is at least that of every entry; the same
\* holds of the selection statements on the quotes of every non-empty set of DEXs,
\* and the winning DEX is the same whatever the slippage of the quotes
C12_HighestRawAmountOut ==
    /\ HelpersReturned =>
          LET h == Val(highest_swap)
              to_asset == assets[asset_pair[2]]
          IN  /\ DexKey(h.dex) \in DOMAIN quotes_returned
              /\ h.quote = quotes_returned[DexKey(h.dex)]
              /\ h.amount_out = RawAmountOut(quotes_returned, DexKey(h.dex), to_asset)
              /\ \A dex \in DOMAIN quotes_returned :
                    h.amount_out >= RawAmountOut(quotes_returned, dex, to_asset)
    /\ called = "start" =>
       \A to \in 1..3, present \in (SUBSET DEXS) \ {{}} :
          \A resp \in AdapterResponses(WithAttr[to]) :
             LET quotes == get_swap_quotes(present, WithAttr[1], WithAttr[to],
                                           TradeAmt, Slippage, resp)
                 exact == get_swap_quotes(present, WithAttr[1], WithAttr[to],
                                          TradeAmt, 0, resp)
                 w == HighestOf(quotes, WithAttr[to])
             IN  /\ DexKey(w.dex) \in present
                 /\ w.amount_out = RawAmountOut(quotes, DexKey(w.dex), WithAttr[to])
                 /\ \A dex \in present :
                       w.amount_out >= RawAmountOut(quotes, dex, WithAttr[to])
                 /\ HighestOf(exact, WithAttr[to]).dex = w.dex

\* all three DEXs quoted and Tinyman, the last one tested, won with a strictly
\* higher amount than both others
C12_Witness ==
    /\ HelpersReturned
    /\ DOMAIN quotes_returned = DEXS
    /\ Val(highest_swap).dex = "Tinyman"
    /\ \A dex \in {"algofi", "pactfi"} :
          Val(highest_swap).amount_out >
              RawAmountOut(quotes_returned, dex, assets[asset_pair[2]])

\* C13: among the entries with the highest raw amount_out the winner is the first
\* in the order algofi, pactfi, tinyman, in get_highest_swap_amount_out's result
\* and in the selection statements on the quotes of every non-empty set of DEXs
C13_TieBreakPriority ==
    LET maximal(qs, to_asset) ==
            {d \in DOMAIN qs : \A e \in DOMAIN qs :
                RawAmountOut(qs, d, to_asset) >= RawAmountOut(qs, e, to_asset)}
        first(dexs) ==
            IF "algofi" \in dexs THEN "algofi"
            ELSE IF "pactfi" \in dexs THEN "pactfi" ELSE "tinyman"
    IN  /\ HelpersReturned =>
              DexKey(Val(highest_swap).dex) =
                  first(maximal(quotes_returned, assets[asset_pair[2]]))
        /\ called = "start" =>
           \A to \in 1..3, present \in (SUBSET DEXS) \ {{}} :
              \A resp \in AdapterResponses(WithAttr[to]) :
                 LET quotes == get_swap_quotes(present, WithAttr[1], WithAttr[to],
                                               TradeAmt, Slippage, resp)
                 IN  DexKey(HighestOf(quotes, WithAttr[to]).dex) =
                         first(maximal(quotes, WithAttr[to]))

\* Pact and Tinyman quoted the same amount, more than Algofi, and Pact won
C13_Witness ==
    /\ HelpersReturned
    /\ DOMAIN quotes_returned = DEXS
    /\ Val(highest_swap).dex = "Pact"
    /\ RawAmountOut(quotes_returned, "tinyman", assets[asset_pair[2]]) =
           Val(highest_swap).amount_out
    /\ RawAmountOut(quotes_returned, "algofi", assets[asset_pair[2]]) <
           Val(highest_swap).amount_out

\* C14: called on an empty pool mapping, so that no DEX can quote, and with assets
\* whose scaling works, get_highest_swap_amount_out returns nothing and raises
\* NoQuoteAvailable
C14_EmptyMappingRaisesNoQuoteAvailable ==
    (/\ called = "get_highest_swap_amount_out"
     /\ dex_pools = {}
     /\ ~ScalingRaises(assets[asset_pair[1]])) =>
        (raised = "NoQuoteAvailable" /\ IsNone(highest_swap))

\* C15: every attempt of submit_swap goes through the branch of the DEX whose quote
\* the intended swap carries, in the two-way and in the three-way bot
C15_SubmittedOnQuotingDex ==
    pc = "submit" =>
        SubmitBranch(bot, Lower(Val(swap_to_carry_out).dex)) =
            (IF Val(swap_to_carry_out).quote.source = "pactfi" THEN "pact"
             ELSE Val(swap_to_carry_out).quote.source)

\* C16: a requote replaces the intended swap by one with the same from_asset and
\* to_asset, the same amount_in and the same slippage
C16_RequoteKeepsRequest ==
    [][(pc = "requote" /\ pc' = "submit") =>
          /\ swap_to_carry_out'[1].from_asset = swap_to_carry_out[1].from_asset
          /\ swap_to_carry_out'[1].to_asset = swap_to_carry_out[1].to_asset
          /\ swap_to_carry_out'[1].amount_in = swap_to_carry_out[1].amount_in
          /\ swap_to_carry_out'[1].slippage = swap_to_carry_out[1].slippage
          /\ swap_to_carry_out'[1].slippage = Slippage
          /\ UNCHANGED <<leg, dir, swap_carried_out, retry_with_new_quote>>]_vars

\* a leg was re-quoted twice and the replacement swap is ready to be submitted
C16_Witness ==
    /\ pc = "submit"
    /\ leg >= 2
    /\ requotes[leg] = 2
    /\ attempts[leg] = 2

\* C17: the amount_out of the outcome a successful attempt returns is the amount
\* read of the settled swap when one was read, converted from its scaled value, and
\* the quote's slippage-adjusted amount otherwise: on Algofi and Pact the read-back
\* of the ledger, on Tinyman the quoted minimum plus the excess found for the asset
C17_OutcomeAmountIsReadBack ==
    (pc = "returned" /\ ~IsNone(swap_carried_out)) =>
        LET outcome == Val(swap_carried_out)
            read == Val(read_back)
            to_asset == assets[outcome.to_asset]
        IN  /\ ~IsNone(read_back)
            /\ IF outcome.quote.source = "tinyman"
               THEN /\ outcome.amount_out_with_slippage =
                          get_unscaled_from_scaled_amount(to_asset,
                              outcome.quote.amount_out_with_slippage)
                    /\ outcome.amount_out =
                          get_unscaled_from_scaled_amount(to_asset,
                              outcome.quote.amount_out_with_slippage + read.excess)
                    /\ read.excess = 0 =>
                          outcome.amount_out = outcome.amount_out_with_slippage
               ELSE /\ outcome.amount_out_with_slippage =
                          outcome.quote.amount_out_with_slippage
                    /\ outcome.amount_out =
                          IF IsNone(read.amt)
                          THEN outcome.quote.amount_out_with_slippage
                          ELSE get_unscaled_from_scaled_amount(to_asset,
                                                               Val(read.amt))

\* a swap settled on Pact whose read-back gave an amount other than the quoted
\* minimum, and the outcome carries it
C17_Witness ==
    /\ pc = "returned"
    /\ ~IsNone(swap_carried_out)
    /\ Val(swap_carried_out).quote.source = "pactfi"
    /\ ~IsNone(Val(read_back).amt)
    /\ Val(swap_carried_out).amount_out # Val(swap_carried_out).amount_out_with_slippage

\* C18: submit_swap returns an outcome only when an attempt of this call was sent,
\* settled and completed; a call none of whose attempts completed returns None
C18_OutcomeOnlyAfterSuccess ==
    pc = "returned" =>
        /\ attempts[leg] >= 1
        /\ ~IsNone(swap_carried_out) =>
              /\ settled[leg] >= 1
              /\ produced[leg]
              /\ ~IsNone(read_back)
              /\ Val(swap_carried_out).from_asset = Val(swap_to_carry_out).from_asset
              /\ Val(swap_carried_out).to_asset = Val(swap_to_carry_out).to_asset
              /\ Val(swap_carried_out).amount_in = Val(swap_to_carry_out).amount_in
        /\ (settled[leg] = 0 \/ ~produced[leg]) => IsNone(swap_carried_out)

\* a later leg returned an outcome from its second attempt, after a failed one
C18_Witness ==
    /\ pc = "returned"
    /\ leg >= 2
    /\ attempts[leg] = 2
    /\ settled[leg] = 1
    /\ ~IsNone(swap_carried_out)

\* C19: with raise_error_on_missing_lp False, one DEX without a pool or failing the
\* lookup only has its entry left out: get_liquidity_pools raises nothing and
\* returns the pools of the other DEXs
C19_MissingPoolOnlyDropsEntry ==
    (/\ called = "get_liquidity_pools"
     /\ ~raise_flag
     /\ Cardinality({dex \in DEXS : lp_answer[dex] # "ok"}) = 1) =>
        /\ raised = "none"
        /\ dex_pools = {dex \in DEXS : lp_answer[dex] = "ok"}

\* C20: when the quote call of one DEX fails and another DEX with a pool answers,
\* get_swap_quotes returns the quotes of the others and a best quote is selected
C20_QuoteFailureAbsorbed ==
    (/\ called = "get_highest_swap_amount_out"
     /\ ~ScalingRaises(assets[asset_pair[1]])
     /\ "pactfi" \in dex_pools
     /\ Cardinality(dex_pools) >= 2
     /\ Cardinality(quote_failures \cap dex_pools) = 1) =>
        /\ raised = "none"
        /\ DOMAIN quotes_returned = dex_pools \ quote_failures
        /\ ~IsNone(highest_swap)

\* C21: for every non-empty pool mapping, with assets whose scaling works and no
\* quote call failing, get_swap_quotes returns quotes for exactly the DEXs that
\* have a pool in the mapping
C21_QuotesForExactlyThePools ==
    (/\ called = "get_highest_swap_amount_out"
     /\ dex_pools # {}
     /\ ~ScalingRaises(assets[asset_pair[1]])
     /\ quote_failures \cap dex_pools = {}) =>
        /\ raised = "none"
        /\ DOMAIN quotes_returned = dex_pools

\* C22 as stated: when a pool lookup of the evaluation raises, no swap has been
\* submitted in that round, in either direction
C22_NoSubmissionInRoundOfLookupError ==
    [][(pc = "pools" /\ pc' = "except") =>
          /\ attempts = NoLegs
          /\ ~(dir = 2 /\ verdicts[1] = "profitable")]_vars

\* C22: when a pool lookup of the evaluation raises, nothing has been submitted for
\* the direction being evaluated and the round trip is left with nothing submitted
\* afterwards; run_bot's except clause then goes back to the loop without another
\* lookup, and the loop starts the next round with the first direction
C22_LookupErrorEndsEvaluationOnly ==
    [][/\ (pc = "pools" /\ pc' = "except") =>
             /\ attempts = NoLegs /\ settled = NoLegs
             /\ verdicts[dir] = "none"
             /\ swap_to_carry_out' = None
             /\ UNCHANGED <<config, spot, dir, history>>
       /\ pc = "except" => (pc' = "loop" /\ UNCHANGED <<config, spot, dir, locals, history>>)
       /\ pc = "loop" => (pc' = "pools" /\ dir' = 1 /\ attempts' = NoLegs)]_vars

\* with assets whose quoting works, the first direction's evaluation ended in
\* run_bot's except clause before any verdict: a pool lookup raised
C22_Witness ==
    /\ pc = "except"
    /\ ~ScalingRaises(assets[1])
    /\ failed_leg = 0
    /\ dir = 1
    /\ verdicts[1] = "none"
    /\ attempts = NoLegs

\* C23: whether ALGO is configured with the id 0 or the id 1, every pool lookup and
\* every quote call of Algofi gets the id 1 for it and those of Tinyman and Pact get
\* the id 0, the swap submit_swap sends for a returned SwapAmount uses the same ids,
\* and the ids of the other assets are handed on unchanged
C23_NativeIdPerAdapter ==
    LET expected(dex, id) ==
            IF id \in {0, 1} THEN (IF dex = "algofi" THEN 1 ELSE 0) ELSE id
        id_of(i) == assets[asset_pair[i]].asset_onchain_id
    IN  /\ \A dex \in DOMAIN lookup_ids :
              lookup_ids[dex] = <<expected(dex, id_of(1)), expected(dex, id_of(2))>>
        /\ \A dex \in DOMAIN quote_ids : quote_ids[dex] = expected(dex, id_of(1))
        /\ highest_swap # None =>
              \A b \in BOTS :
                 LET swap == Val(highest_swap)
                     branch == SubmitBranch(b, Lower(swap.dex))
                 IN  ~RaisesBeforeSending(b, swap) =>
                        SubmitAssetIds(branch, id_of(1), id_of(2)) =
                           <<expected(DexKey(swap.dex), id_of(1)),
                             expected(DexKey(swap.dex), id_of(2))>>

\* ALGO is configured with the id 1, the three DEXs quoted the swap from ALGO and the
\* winner is Tinyman's quote
C23_Witness ==
    /\ called = "get_highest_swap_amount_out"
    /\ assets[asset_pair[1]].asset_onchain_id = 1
    /\ DOMAIN quote_ids = DEXS
    /\ DOMAIN lookup_ids = DEXS
    /\ highest_swap # None
    /\ Val(highest_swap).dex = "Tinyman"

\* C24: Algofi's entry carries amount_out * (1 - slippage), Tinyman's and Pact's
\* entries carry the minimum the adapter computed for its own answer, not reduced
\* again, and the SwapAmount returned carries the figure of the winning entry
C24_SlippageFigurePerAdapter ==
    HelpersReturned =>
       LET to_asset == assets[asset_pair[2]]
           h == Val(highest_swap)
           q(dex) == quotes_returned[dex]
           has(dex) == dex \in DOMAIN quotes_returned
           unscaled(n) == get_unscaled_from_scaled_amount(to_asset, n)
           figure(dex) == IF dex = "tinyman"
                          THEN unscaled(q(dex).amount_out_with_slippage)
                          ELSE q(dex).amount_out_with_slippage
       IN  /\ has("algofi") =>
                /\ q("algofi").amount_out = unscaled(responses["algofi"])
                /\ 100 * DecTicks(q("algofi").amount_out_with_slippage) =
                      (100 - h.slippage) * DecTicks(q("algofi").amount_out)
           /\ has("tinyman") =>
                q("tinyman").amount_out_with_slippage =
                    TinymanMinOut(responses["tinyman"], h.slippage)
           /\ has("pactfi") =>
                q("pactfi").amount_out_with_slippage =
                    unscaled(PactMinOut(responses["pactfi"], h.slippage))
           /\ h.amount_out_with_slippage = figure(DexKey(h.dex))

\* the three DEXs quoted, Pact won and its minimum received is below its amount out
C24_Witness ==
    /\ HelpersReturned
    /\ DOMAIN quotes_returned = DEXS
    /\ Val(highest_swap).dex = "Pact"
    /\ Val(highest_swap).slippage = Slippage
    /\ Val(highest_swap).amount_out_with_slippage < Val(highest_swap).amount_out
    /\ Val(highest_swap).amount_out_with_slippage > 0

\* C25: with a slippage above 0 and at most 1, every entry of the quote mapping and
\* the SwapAmount returned have amount_out_with_slippage <= amount_out
C25_SlippageFigureNotAboveAmountOut ==
    HelpersReturned =>
       /\ Val(highest_swap).slippage > 0 /\ Val(highest_swap).slippage <= 100
       /\ \A dex \in DOMAIN quotes_returned :
             quotes_returned[dex].amount_out_with_slippage <=
                 quotes_returned[dex].amount_out
       /\ Val(highest_swap).amount_out_with_slippage <= Val(highest_swap).amount_out

\* with the slippage 1.0 Algofi's quote won: its figure is zero, below its amount out
C25_Witness ==
    /\ HelpersReturned
    /\ DOMAIN quotes_returned = DEXS
    /\ Val(highest_swap).dex = "Algofi"
    /\ Val(highest_swap).slippage = 100
    /\ Val(highest_swap).amount_out_with_slippage = 0
    /\ Val(highest_swap).amount_out > 0

C27_OutcomeReportedBeforeNextAction ==
    (pc = "returned" /\ swap_carried_out # None) =>
        SuccessReport(bot, Val(swap_to_carry_out), Val(read_back)) # "nothing"

\* C28: for every asset and every amount x the scaling methods are called on,
\* get_unscaled_from_scaled_amount(get_scaled_amount(x)) differs from x by less
\* than 10^-d
C28_ScaleRoundTripWithinUnit ==
    (called = "scaling" /\ raised = "none") =>
        LET call == Val(scaling_call)
        IN  DiffersByLessThanUnit(assets[call.asset], call.amount, Val(call.result))

\* C29: for every AlgoAsset and every amount, get_scaled_amount and
\* get_unscaled_from_scaled_amount return a value and do not raise
C29_ScalingNeverRaises ==
    called = "scaling" =>
        /\ raised = "none"
        /\ Val(scaling_call).scaled # None
        /\ Val(scaling_call).result # None

\* C30: within one submit_swap call at most one submission of the leg is settled on
\* chain, with requote enabled as well
C30_AtMostOneSettlementPerCall ==
    \A k \in 1..3 : settled[k] <= 1

C33_SecondDirectionIffFirstIncomplete ==
    [][LET first_incomplete ==
               \/ verdicts[1] = "unprofitable"
               \/ /\ verdicts[1] = "profitable"
                  /\ attempts = <<1, 0, 0>> /\ ~produced[1]
       IN  /\ (dir = 1 /\ dir' = 2) =>
                 /\ bot = "threeway" /\ pc = "helper_done"
                 /\ first_incomplete
                 /\ pc' = "pools" /\ verdicts' = verdicts
           /\ (pc = "helper_done" /\ dir = 1 /\ bot = "threeway" /\ first_incomplete)
                 => dir' = 2
           /\ (pc = "helper_done" /\ dir = 1 /\ \A k \in 1..NumLegs(bot) : produced[k])
                 => (pc' = "sleep" /\ dir' = 1)
           /\ (dir = 2 /\ pc # "loop") => dir' = 2]_vars

\* the first direction of the three-way bot completed its three legs and the round
\* has ended in that direction
C33_Witness ==
    /\ bot = "threeway"
    /\ pc = "sleep"
    /\ dir = 1
    /\ verdicts = <<"profitable", "none">>
    /\ \A k \in 1..3 : produced[k]

\* C34: the dex, the quote, the amount_out and the amount_out_with_slippage of the
\* SwapAmount get_highest_swap_amount_out returns belong to one entry of the quote
\* mapping, and its amount_in, slippage, from_asset and to_asset are the call's
\* arguments; the same holds of the selection on every non-empty set of DEXs
C34_SwapAmountConsistent ==
    LET consistent(h, quotes, to_asset) ==
            LET key == DexKey(h.dex)
            IN  /\ key \in DOMAIN quotes
                /\ h.quote = quotes[key]
                /\ h.quote.source = key
                /\ h.amount_out = RawAmountOut(quotes, key, to_asset)
                /\ h.amount_out_with_slippage =
                      IF key = "tinyman"
                      THEN get_unscaled_from_scaled_amount(to_asset,
                               quotes[key].amount_out_with_slippage)
                      ELSE quotes[key].amount_out_with_slippage
                /\ h.slippage = quotes[key].slippage
    IN  /\ HelpersReturned =>
              /\ consistent(Val(highest_swap), quotes_returned,
                            assets[asset_pair[2]])
              /\ Val(highest_swap).from_asset = asset_pair[1]
              /\ Val(highest_swap).to_asset = asset_pair[2]
              /\ Val(highest_swap).amount_in = TradeAmt
              /\ Val(highest_swap).slippage \in Slippages
        /\ called = "start" =>
              \A to \in 2..3, present \in (SUBSET DEXS) \ {{}} :
                 \A resp \in AdapterResponses(WithAttr[to]) :
                    LET h == get_highest_swap_amount_out(present, WithAttr, 1, to,
                                                         TradeAmt, Slippage, resp)
                        quotes == get_swap_quotes(present, WithAttr[1], WithAttr[to],
                                                  TradeAmt, Slippage, resp)
                    IN  /\ consistent(h, quotes, WithAttr[to])
                        /\ h.from_asset = 1 /\ h.to_asset = to
                        /\ h.amount_in = TradeAmt /\ h.slippage = Slippage

\* Tinyman's quote, the last one the selection tests, won a call with slippage 1.0
\* in which all three DEXs quoted
C34_Witness ==
    /\ HelpersReturned
    /\ DOMAIN quotes_returned = DEXS
    /\ Val(highest_swap).dex = "Tinyman"
    /\ Val(highest_swap).quote.source = "tinyman"
    /\ Val(highest_swap).slippage = 100

\* C35: in both directions of the three-way bot the pools on which leg k is quoted
\* and executed are those resolved for the unordered pair of the assets leg k
\* swaps: (a1, a2) for leg 1, (a2, a3) for leg 2 and (a3, a1) for leg 3
C35_LegOnPoolsOfItsPair ==
    bot = "threeway" =>
       LET legs == IF dir = 1 THEN << {1, 2}, {2, 3}, {3, 1} >>
                   ELSE << {1, 3}, {3, 2}, {2, 1} >>
           resolved_for(k) ==
               {PoolPairs(bot, dir)[LegPools(bot, k)][1],
                PoolPairs(bot, dir)[LegPools(bot, k)][2]}
       IN  /\ pc = "quote" =>
                \A k \in 1..Len(swap_amount) :
                   /\ {swap_amount[k].from_asset, swap_amount[k].to_asset} = legs[k]
                   /\ resolved_for(k) = legs[k]
           /\ pc = "quote" =>
                {LegFrom(bot, dir, leg), LegTo(bot, dir, leg)} = resolved_for(leg)
           /\ InSubmitSwap =>
                /\ {Val(swap_to_carry_out).from_asset,
                    Val(swap_to_carry_out).to_asset} = legs[leg]
                /\ resolved_for(leg) = legs[leg]
                /\ (pc = "submit" /\ requotes[leg] = 0) =>
                      submit_lps = lps[LegPools(bot, leg)]

\* leg 3 of the second direction is being submitted: it swaps asset 2 for asset 1
C35_Witness ==
    /\ bot = "threeway"
    /\ dir = 2
    /\ pc = "submit"
    /\ leg = 3
    /\ Val(swap_to_carry_out).from_asset = 2
    /\ Val(swap_to_carry_out).to_asset = 1

\* C36: an order that sets max_amt_to_receive_per_unit has its swap settled only
\* on a DEX whose slippage-adjusted output is at most
\* max_amt_to_receive_per_unit * amt_to_buy_sell
C36_MaxOrderExecutedWithinLimit ==
    (/\ bot = "spottrades"
     /\ ~IsNone(handled)
     /\ Val(handled).outcome \in {"completed", "swapped, error"}
     /\ ~IsNone(orderbook[Val(handled).order].max_amt_to_receive_per_unit))
    => Val(Val(handled).figure)
          <= buy_sell_amt(Val(orderbook[Val(handled).order].max_amt_to_receive_per_unit),
                          orderbook[Val(handled).order].amt_to_buy_sell)

\* C37: an order that sets min_amt_to_receive_per_unit has its swap sent only to a
\* DEX whose slippage-adjusted output is at least
\* min_amt_to_receive_per_unit * amt_to_buy_sell, and an order that sets neither
\* limit is never sent to a DEX, never appended to swaps_completed and never
\* marked completed
C37_MinOrderExecutedAtOrAboveLimit ==
    bot = "spottrades" =>
       /\ \A o \in DOMAIN orderbook :
             NotConfigured(orderbook[o]) =>
                /\ ~orderbook[o].is_completed
                /\ \A i \in 1..Len(swaps_completed) : swaps_completed[i][1] # o
       /\ ~IsNone(handled) =>
             /\ NotConfigured(orderbook[Val(handled).order]) =>
                   /\ Val(handled).outcome \in {"skipped", "error"}
                   /\ Val(handled).dex = "none"
             /\ (/\ Val(handled).dex \in DEXS
                 /\ ~IsNone(orderbook[Val(handled).order].min_amt_to_receive_per_unit))
                => Val(Val(handled).figure)
                      >= buy_sell_amt(
                             Val(orderbook[Val(handled).order].min_amt_to_receive_per_unit),
                             orderbook[Val(handled).order].amt_to_buy_sell)

\* a sell order with a minimum and no maximum has been completed on Tinyman, which
\* quoted more than Algofi and Pact, after an order without limits was skipped
C37_Witness ==
    /\ bot = "spottrades"
    /\ ~IsNone(handled)
    /\ Val(handled).outcome = "completed"
    /\ Val(handled).dex = "tinyman"
    /\ Val(handled).order = 2
    /\ ~IsNone(orderbook[2].min_amt_to_receive_per_unit)
    /\ IsNone(orderbook[2].max_amt_to_receive_per_unit)
    /\ NotConfigured(orderbook[1])
    /\ Len(swaps_completed) = 1

\* C38: when the process leaves the loop over the orders, to sleep and query the
\* order book again or to terminate, every order appended to swaps_completed is
\* marked is_completed in the store
C38_CompletedMarkedBeforeQueryOrEnd ==
    [][(bot = "spottrades" /\ pc = "orders" /\ pc' # "orders")
       => \A i \in 1..Len(swaps_completed) :
             orderbook'[swaps_completed[i][1]].is_completed]_vars

\* C39: a failure while an order is handled leaves swaps_completed as it is and
\* the for loop goes on to the next order of the cursor
C39_FailureConfinedToOrder ==
    [][(/\ bot = "spottrades"
        /\ AtOrder
        /\ ~IsNone(handled')
        /\ Val(handled').outcome \in {"error", "swapped, error", "exited"})
       => /\ swaps_completed' = swaps_completed
          /\ pc' = "orders"
          /\ cursor' = Tail(cursor)]_vars
====
